---- MODULE Spec2Model ----
(***************************************************************************)
(* Ledger state machine of the toy payments engine.                        *)
(*                                                                         *)
(* Money is modelled as an exact fixed-point integer (amounts are already   *)
(* truncated when they reach the engine), so additions and subtractions    *)
(* are exact; binary floating-point effects are outside the model.         *)
(* Positions in the account                                                *)
(* collection and in the history are 1-based (Rust position + 1).          *)
(*                                                                         *)
(* The ledger is driven in three ways: call by call (Spec), by the         *)
(* streaming run over a record source (SpecStream) and by the batch run    *)
(* (SpecBatch).  SpecAdapter applies the ingestion adapter to one raw      *)
(* record.  A raw amount is a fixed-point integer with RawDigits           *)
(* fractional digits.                                                      *)
(***************************************************************************)
EXTENDS Integers, Sequences, FiniteSets, TLC

\* ---------------------------------------------------------------- bounds
MaxHistory == 4
NumAcnts == 2
NumTxnIds == 2
MaxRecords == 3
MaxRaw == 25
RawDigits == 5

\* Number of fractional digits kept by the engine
PRECISION == 4

AcntIds == 1..NumAcnts
TxnIds == 1..NumTxnIds
Amounts == {-5, 10}

VARIABLES accounts, acnt_map, processed_txns, txn_map, txn, res,
          source, cursor, pc, txn_vec, output, batch

vars ==
    <<accounts, acnt_map, processed_txns, txn_map, txn, res,
      source, cursor, pc, txn_vec, output, batch>>

\* ------------------------------------------------------------ data model
TxnErrors ==
    {"AccountDoesNotExist", "AccountFrozen", "AccountLacksFunds",
     "TxnAlreadyDisputed", "TxnIdAlreadyExists", "TxnIdDoesNotExist",
     "TxnMustBeDisputed"}

Account(id, available, held, frozen) ==
    [id |-> id, available |-> available, held |-> held, frozen |-> frozen]

get_total(acnt) == acnt.available + acnt.held

\* Every Deposit/Withdrawal reaches the engine from the ingestion adapter,
\* which builds it with disputed = false.
PureTxn == [txn_id : TxnIds, acnt_id : AcntIds, amount : Amounts, disputed : {FALSE}]

RefTxn == [acnt_id : AcntIds, ref_id : TxnIds]

Deposit(p) == [p |-> p, type |-> "Deposit"]
Withdrawal(p) == [p |-> p, type |-> "Withdrawal"]
Dispute(r) == [type |-> "Dispute", r |-> r]
Resolve(r) == [type |-> "Resolve", r |-> r]
Chargeback(r) == [type |-> "Chargeback", r |-> r]

Transaction ==
    {Deposit(p) : p \in PureTxn} \cup {Withdrawal(p) : p \in PureTxn}
    \cup {Dispute(r) : r \in RefTxn} \cup {Resolve(r) : r \in RefTxn}
    \cup {Chargeback(r) : r \in RefTxn}

IsPure(t) == t.type \in {"Deposit", "Withdrawal"}

\* No transaction (nothing submitted yet, or a record that gave none)
NoTxn == [type |-> "None"]

\* PaymentsEngine::new
new ==
    [accounts |-> <<>>, acnt_map |-> <<>>, processed_txns |-> <<>>, txn_map |-> <<>>]

\* HashMap::insert (an existing key is overwritten)
insert(m, k, v) == (k :> v) @@ m

Ok(self) == [res |-> "Ok", pe |-> self]
Err(self, e) == [res |-> e, pe |-> self]

\* ------------------------------------------------------------ operations
\* Variant of process_deposit that omits the frozen check
process_deposit_no_frozen_check(self, p_txn) ==
    IF p_txn.txn_id \in DOMAIN self.txn_map
    THEN Err(self, "TxnIdAlreadyExists")
    ELSE IF p_txn.acnt_id \in DOMAIN self.acnt_map
    THEN LET acnt_indx == self.acnt_map[p_txn.acnt_id] IN
         Ok([self EXCEPT
               !.accounts[acnt_indx].available = @ + p_txn.amount,
               !.processed_txns = Append(@, Deposit(p_txn)),
               !.txn_map = insert(@, p_txn.txn_id, Len(self.processed_txns) + 1)])
    ELSE LET new_account == Account(p_txn.acnt_id, p_txn.amount, 0, FALSE) IN
         Ok([self EXCEPT
               !.acnt_map = insert(@, new_account.id, Len(self.accounts) + 1),
               !.accounts = Append(@, new_account),
               !.processed_txns = Append(@, Deposit(p_txn)),
               !.txn_map = insert(@, p_txn.txn_id, Len(self.processed_txns) + 1)])

\* Variant of process_deposit that opens a new account with nothing available
process_deposit_opens_empty(self, p_txn) ==
    IF p_txn.txn_id \in DOMAIN self.txn_map
    THEN Err(self, "TxnIdAlreadyExists")
    ELSE IF p_txn.acnt_id \in DOMAIN self.acnt_map
    THEN LET acnt_indx == self.acnt_map[p_txn.acnt_id] IN
         IF self.accounts[acnt_indx].frozen
         THEN Err(self, "AccountFrozen")
         ELSE Ok([self EXCEPT
                    !.accounts[acnt_indx].available = @ + p_txn.amount,
                    !.processed_txns = Append(@, Deposit(p_txn)),
                    !.txn_map = insert(@, p_txn.txn_id, Len(self.processed_txns) + 1)])
    ELSE LET new_account == Account(p_txn.acnt_id, 0, 0, FALSE) IN
         Ok([self EXCEPT
               !.acnt_map = insert(@, new_account.id, Len(self.accounts) + 1),
               !.accounts = Append(@, new_account),
               !.processed_txns = Append(@, Deposit(p_txn)),
               !.txn_map = insert(@, p_txn.txn_id, Len(self.processed_txns) + 1)])

\* Variant of process_deposit that overwrites available of an existing account
process_deposit_overwrites(self, p_txn) ==
    IF p_txn.txn_id \in DOMAIN self.txn_map
    THEN Err(self, "TxnIdAlreadyExists")
    ELSE IF p_txn.acnt_id \in DOMAIN self.acnt_map
    THEN LET acnt_indx == self.acnt_map[p_txn.acnt_id] IN
         IF self.accounts[acnt_indx].frozen
         THEN Err(self, "AccountFrozen")
         ELSE Ok([self EXCEPT
                    !.accounts[acnt_indx].available = p_txn.amount,
                    !.processed_txns = Append(@, Deposit(p_txn)),
                    !.txn_map = insert(@, p_txn.txn_id, Len(self.processed_txns) + 1)])
    ELSE LET new_account == Account(p_txn.acnt_id, p_txn.amount, 0, FALSE) IN
         Ok([self EXCEPT
               !.acnt_map = insert(@, new_account.id, Len(self.accounts) + 1),
               !.accounts = Append(@, new_account),
               !.processed_txns = Append(@, Deposit(p_txn)),
               !.txn_map = insert(@, p_txn.txn_id, Len(self.processed_txns) + 1)])

\* Variant of process_deposit that indexes the history length after the push
process_deposit_index_off_by_one(self, p_txn) ==
    IF p_txn.txn_id \in DOMAIN self.txn_map
    THEN Err(self, "TxnIdAlreadyExists")
    ELSE IF p_txn.acnt_id \in DOMAIN self.acnt_map
    THEN LET acnt_indx == self.acnt_map[p_txn.acnt_id] IN
         IF self.accounts[acnt_indx].frozen
         THEN Err(self, "AccountFrozen")
         ELSE Ok([self EXCEPT
                    !.accounts[acnt_indx].available = @ + p_txn.amount,
                    !.processed_txns = Append(@, Deposit(p_txn)),
                    !.txn_map = insert(@, p_txn.txn_id, Len(self.processed_txns) + 2)])
    ELSE LET new_account == Account(p_txn.acnt_id, p_txn.amount, 0, FALSE) IN
         Ok([self EXCEPT
               !.acnt_map = insert(@, new_account.id, Len(self.accounts) + 1),
               !.accounts = Append(@, new_account),
               !.processed_txns = Append(@, Deposit(p_txn)),
               !.txn_map = insert(@, p_txn.txn_id, Len(self.processed_txns) + 2)])

\* Variant of process_deposit that opens an account on every deposit
process_deposit_always_opens(self, p_txn) ==
    IF p_txn.txn_id \in DOMAIN self.txn_map
    THEN Err(self, "TxnIdAlreadyExists")
    ELSE IF p_txn.acnt_id \in DOMAIN self.acnt_map
            /\ self.accounts[self.acnt_map[p_txn.acnt_id]].frozen
    THEN Err(self, "AccountFrozen")
    ELSE LET new_account == Account(p_txn.acnt_id, p_txn.amount, 0, FALSE) IN
         Ok([self EXCEPT
               !.acnt_map = insert(@, new_account.id, Len(self.accounts) + 1),
               !.accounts = Append(@, new_account),
               !.processed_txns = Append(@, Deposit(p_txn)),
               !.txn_map = insert(@, p_txn.txn_id, Len(self.processed_txns) + 1)])

\* Variant of process_deposit that puts a new account at the front of the
\* collection (the index is shifted accordingly)
process_deposit_prepends(self, p_txn) ==
    IF p_txn.txn_id \in DOMAIN self.txn_map
    THEN Err(self, "TxnIdAlreadyExists")
    ELSE IF p_txn.acnt_id \in DOMAIN self.acnt_map
    THEN LET acnt_indx == self.acnt_map[p_txn.acnt_id] IN
         IF self.accounts[acnt_indx].frozen
         THEN Err(self, "AccountFrozen")
         ELSE Ok([self EXCEPT
                    !.accounts[acnt_indx].available = @ + p_txn.amount,
                    !.processed_txns = Append(@, Deposit(p_txn)),
                    !.txn_map = insert(@, p_txn.txn_id, Len(self.processed_txns) + 1)])
    ELSE LET new_account == Account(p_txn.acnt_id, p_txn.amount, 0, FALSE) IN
         Ok([self EXCEPT
               !.acnt_map = insert([a \in DOMAIN @ |-> @[a] + 1], new_account.id, 1),
               !.accounts = <<new_account>> \o @,
               !.processed_txns = Append(@, Deposit(p_txn)),
               !.txn_map = insert(@, p_txn.txn_id, Len(self.processed_txns) + 1)])

\* Variant of process_deposit that tests the frozen flag before the id
process_deposit_frozen_first(self, p_txn) ==
    IF p_txn.acnt_id \in DOMAIN self.acnt_map
       /\ self.accounts[self.acnt_map[p_txn.acnt_id]].frozen
    THEN Err(self, "AccountFrozen")
    ELSE IF p_txn.txn_id \in DOMAIN self.txn_map
    THEN Err(self, "TxnIdAlreadyExists")
    ELSE IF p_txn.acnt_id \in DOMAIN self.acnt_map
    THEN LET acnt_indx == self.acnt_map[p_txn.acnt_id] IN
         Ok([self EXCEPT
               !.accounts[acnt_indx].available = @ + p_txn.amount,
               !.processed_txns = Append(@, Deposit(p_txn)),
               !.txn_map = insert(@, p_txn.txn_id, Len(self.processed_txns) + 1)])
    ELSE LET new_account == Account(p_txn.acnt_id, p_txn.amount, 0, FALSE) IN
         Ok([self EXCEPT
               !.acnt_map = insert(@, new_account.id, Len(self.accounts) + 1),
               !.accounts = Append(@, new_account),
               !.processed_txns = Append(@, Deposit(p_txn)),
               !.txn_map = insert(@, p_txn.txn_id, Len(self.processed_txns) + 1)])

process_deposit(self, p_txn) ==
    IF p_txn.txn_id \in DOMAIN self.txn_map
    THEN Err(self, "TxnIdAlreadyExists")
    ELSE IF p_txn.acnt_id \in DOMAIN self.acnt_map
    THEN LET acnt_indx == self.acnt_map[p_txn.acnt_id] IN
         IF self.accounts[acnt_indx].frozen
         THEN Err(self, "AccountFrozen")
         ELSE Ok([self EXCEPT
                    !.accounts[acnt_indx].available = @ + p_txn.amount,
                    !.processed_txns = Append(@, Deposit(p_txn)),
                    !.txn_map = insert(@, p_txn.txn_id, Len(self.processed_txns) + 1)])
    ELSE LET new_account == Account(p_txn.acnt_id, p_txn.amount, 0, FALSE) IN
         Ok([self EXCEPT
               !.acnt_map = insert(@, new_account.id, Len(self.accounts) + 1),
               !.accounts = Append(@, new_account),
               !.processed_txns = Append(@, Deposit(p_txn)),
               !.txn_map = insert(@, p_txn.txn_id, Len(self.processed_txns) + 1)])

\* Variant of process_withdrawl that debits before the frozen check
process_withdrawl_debit_first(self, p_txn) ==
    IF p_txn.txn_id \in DOMAIN self.txn_map
    THEN Err(self, "TxnIdAlreadyExists")
    ELSE IF p_txn.acnt_id \in DOMAIN self.acnt_map
    THEN LET ii == self.acnt_map[p_txn.acnt_id]
             debited == [self EXCEPT !.accounts[ii].available = @ - p_txn.amount] IN
         IF self.accounts[ii].available < p_txn.amount
         THEN Err(self, "AccountLacksFunds")
         ELSE IF self.accounts[ii].frozen
         THEN Err(debited, "AccountFrozen")
         ELSE Ok([debited EXCEPT
                    !.processed_txns = Append(@, Withdrawal(p_txn)),
                    !.txn_map = insert(@, p_txn.txn_id, Len(self.processed_txns) + 1)])
    ELSE Err(self, "AccountDoesNotExist")

\* Variant of process_withdrawl that omits the duplicate-id check
process_withdrawl_no_id_check(self, p_txn) ==
    IF p_txn.acnt_id \in DOMAIN self.acnt_map
    THEN LET ii == self.acnt_map[p_txn.acnt_id] IN
         IF self.accounts[ii].available < p_txn.amount
         THEN Err(self, "AccountLacksFunds")
         ELSE IF self.accounts[ii].frozen
         THEN Err(self, "AccountFrozen")
         ELSE Ok([self EXCEPT
                    !.accounts[ii].available = @ - p_txn.amount,
                    !.processed_txns = Append(@, Withdrawal(p_txn)),
                    !.txn_map = insert(@, p_txn.txn_id, Len(self.processed_txns) + 1)])
    ELSE Err(self, "AccountDoesNotExist")

\* Variant of process_withdrawl that compares the amount with the total
process_withdrawl_checks_total(self, p_txn) ==
    IF p_txn.txn_id \in DOMAIN self.txn_map
    THEN Err(self, "TxnIdAlreadyExists")
    ELSE IF p_txn.acnt_id \in DOMAIN self.acnt_map
    THEN LET ii == self.acnt_map[p_txn.acnt_id] IN
         IF get_total(self.accounts[ii]) < p_txn.amount
         THEN Err(self, "AccountLacksFunds")
         ELSE IF self.accounts[ii].frozen
         THEN Err(self, "AccountFrozen")
         ELSE Ok([self EXCEPT
                    !.accounts[ii].available = @ - p_txn.amount,
                    !.processed_txns = Append(@, Withdrawal(p_txn)),
                    !.txn_map = insert(@, p_txn.txn_id, Len(self.processed_txns) + 1)])
    ELSE Err(self, "AccountDoesNotExist")

\* Variant of process_withdrawl that checks frozen before the funds
process_withdrawl_frozen_first(self, p_txn) ==
    IF p_txn.txn_id \in DOMAIN self.txn_map
    THEN Err(self, "TxnIdAlreadyExists")
    ELSE IF p_txn.acnt_id \in DOMAIN self.acnt_map
    THEN LET ii == self.acnt_map[p_txn.acnt_id] IN
         IF self.accounts[ii].frozen
         THEN Err(self, "AccountFrozen")
         ELSE IF self.accounts[ii].available < p_txn.amount
         THEN Err(self, "AccountLacksFunds")
         ELSE Ok([self EXCEPT
                    !.accounts[ii].available = @ - p_txn.amount,
                    !.processed_txns = Append(@, Withdrawal(p_txn)),
                    !.txn_map = insert(@, p_txn.txn_id, Len(self.processed_txns) + 1)])
    ELSE Err(self, "AccountDoesNotExist")

\* Variant of process_withdrawl that opens the missing account before failing
process_withdrawl_opens_account(self, p_txn) ==
    IF p_txn.txn_id \in DOMAIN self.txn_map
    THEN Err(self, "TxnIdAlreadyExists")
    ELSE IF p_txn.acnt_id \in DOMAIN self.acnt_map
    THEN LET ii == self.acnt_map[p_txn.acnt_id] IN
         IF self.accounts[ii].available < p_txn.amount
         THEN Err(self, "AccountLacksFunds")
         ELSE IF self.accounts[ii].frozen
         THEN Err(self, "AccountFrozen")
         ELSE Ok([self EXCEPT
                    !.accounts[ii].available = @ - p_txn.amount,
                    !.processed_txns = Append(@, Withdrawal(p_txn)),
                    !.txn_map = insert(@, p_txn.txn_id, Len(self.processed_txns) + 1)])
    ELSE Err([self EXCEPT
                !.acnt_map = insert(@, p_txn.acnt_id, Len(self.accounts) + 1),
                !.accounts = Append(@, Account(p_txn.acnt_id, 0, 0, FALSE))],
             "AccountDoesNotExist")

\* Variant of process_withdrawl that indexes the id before the account checks
process_withdrawl_indexes_first(self, p_txn) ==
    IF p_txn.txn_id \in DOMAIN self.txn_map
    THEN Err(self, "TxnIdAlreadyExists")
    ELSE LET indexed ==
                [self EXCEPT !.txn_map =
                    insert(@, p_txn.txn_id, Len(self.processed_txns) + 1)] IN
         IF p_txn.acnt_id \notin DOMAIN self.acnt_map
         THEN Err(indexed, "AccountDoesNotExist")
         ELSE LET acnt_indx == self.acnt_map[p_txn.acnt_id] IN
              IF self.accounts[acnt_indx].available < p_txn.amount
              THEN Err(indexed, "AccountLacksFunds")
              ELSE IF self.accounts[acnt_indx].frozen
              THEN Err(indexed, "AccountFrozen")
              ELSE Ok([indexed EXCEPT
                         !.accounts[acnt_indx].available = @ - p_txn.amount,
                         !.processed_txns = Append(@, Withdrawal(p_txn))])

process_withdrawl(self, p_txn) ==
    IF p_txn.txn_id \in DOMAIN self.txn_map
    THEN Err(self, "TxnIdAlreadyExists")
    ELSE IF p_txn.acnt_id \in DOMAIN self.acnt_map
    THEN LET ii == self.acnt_map[p_txn.acnt_id] IN
         IF self.accounts[ii].available < p_txn.amount
         THEN Err(self, "AccountLacksFunds")
         ELSE IF self.accounts[ii].frozen
         THEN Err(self, "AccountFrozen")
         ELSE Ok([self EXCEPT
                    !.accounts[ii].available = @ - p_txn.amount,
                    !.processed_txns = Append(@, Withdrawal(p_txn)),
                    !.txn_map = insert(@, p_txn.txn_id, Len(self.processed_txns) + 1)])
    ELSE Err(self, "AccountDoesNotExist")

\* Variant of get_ref_txn_indicies that omits the frozen check
get_ref_txn_indicies_no_frozen_check(self, ref_txn) ==
    IF ref_txn.acnt_id \notin DOMAIN self.acnt_map
    THEN [res |-> "AccountDoesNotExist"]
    ELSE IF ref_txn.ref_id \notin DOMAIN self.txn_map
    THEN [res |-> "TxnIdDoesNotExist"]
    ELSE [res |-> "Ok", acnt_indx |-> self.acnt_map[ref_txn.acnt_id],
          txn_indx |-> self.txn_map[ref_txn.ref_id]]

\* Variant of get_ref_txn_indicies that looks the transaction up first
get_ref_txn_indicies_txn_first(self, ref_txn) ==
    IF ref_txn.ref_id \notin DOMAIN self.txn_map
    THEN [res |-> "TxnIdDoesNotExist"]
    ELSE IF ref_txn.acnt_id \notin DOMAIN self.acnt_map
    THEN [res |-> "AccountDoesNotExist"]
    ELSE LET acnt_indx == self.acnt_map[ref_txn.acnt_id] IN
         IF self.accounts[acnt_indx].frozen
         THEN [res |-> "AccountFrozen"]
         ELSE [res |-> "Ok", acnt_indx |-> acnt_indx,
               txn_indx |-> self.txn_map[ref_txn.ref_id]]

\* Returns the account and history positions, or the error
get_ref_txn_indicies(self, ref_txn) ==
    IF ref_txn.acnt_id \notin DOMAIN self.acnt_map
    THEN [res |-> "AccountDoesNotExist"]
    ELSE LET acnt_indx == self.acnt_map[ref_txn.acnt_id] IN
         IF self.accounts[acnt_indx].frozen
         THEN [res |-> "AccountFrozen"]
         ELSE IF ref_txn.ref_id \notin DOMAIN self.txn_map
         THEN [res |-> "TxnIdDoesNotExist"]
         ELSE [res |-> "Ok", acnt_indx |-> acnt_indx,
               txn_indx |-> self.txn_map[ref_txn.ref_id]]

\* Variant of process_dispute that debits available without crediting held
process_dispute_no_hold(self, ref_txn) ==
    LET ix == get_ref_txn_indicies(self, ref_txn) IN
    IF ix.res # "Ok" THEN Err(self, ix.res)
    ELSE IF ix.txn_indx \notin DOMAIN self.processed_txns
            \/ ~IsPure(self.processed_txns[ix.txn_indx])
    THEN Err(self, "Panic")
    ELSE LET disputed_txn == self.processed_txns[ix.txn_indx].p IN
         IF disputed_txn.disputed
         THEN Err(self, "TxnAlreadyDisputed")
         ELSE Ok([self EXCEPT
                    !.accounts[ix.acnt_indx].available = @ - disputed_txn.amount,
                    !.processed_txns =
                        Append([@ EXCEPT ![ix.txn_indx].p.disputed = TRUE],
                               Dispute(ref_txn))])

\* Variant of process_dispute that does not look at the disputed flag
process_dispute_ignores_flag(self, ref_txn) ==
    LET ix == get_ref_txn_indicies(self, ref_txn) IN
    IF ix.res # "Ok" THEN Err(self, ix.res)
    ELSE IF ix.txn_indx \notin DOMAIN self.processed_txns
            \/ ~IsPure(self.processed_txns[ix.txn_indx])
    THEN Err(self, "Panic")
    ELSE LET disputed_txn == self.processed_txns[ix.txn_indx].p IN
         Ok([self EXCEPT
               !.accounts[ix.acnt_indx].available = @ - disputed_txn.amount,
               !.accounts[ix.acnt_indx].held = @ + disputed_txn.amount,
               !.processed_txns =
                   Append([@ EXCEPT ![ix.txn_indx].p.disputed = TRUE],
                          Dispute(ref_txn))])

\* Variant of process_dispute that records a refused dispute in the history
process_dispute_records_refusal(self, ref_txn) ==
    LET ix == get_ref_txn_indicies(self, ref_txn) IN
    IF ix.res # "Ok" THEN Err(self, ix.res)
    ELSE IF ix.txn_indx \notin DOMAIN self.processed_txns
            \/ ~IsPure(self.processed_txns[ix.txn_indx])
    THEN Err(self, "Panic")
    ELSE LET disputed_txn == self.processed_txns[ix.txn_indx].p IN
         IF disputed_txn.disputed
         THEN Err([self EXCEPT !.processed_txns = Append(@, Dispute(ref_txn))],
                  "TxnAlreadyDisputed")
         ELSE Ok([self EXCEPT
                    !.accounts[ix.acnt_indx].available = @ - disputed_txn.amount,
                    !.accounts[ix.acnt_indx].held = @ + disputed_txn.amount,
                    !.processed_txns =
                        Append([@ EXCEPT ![ix.txn_indx].p.disputed = TRUE],
                               Dispute(ref_txn))])

\* Variant of process_dispute that indexes the Dispute entry under ref_id
process_dispute_indexes_entry(self, ref_txn) ==
    LET ix == get_ref_txn_indicies(self, ref_txn) IN
    IF ix.res # "Ok" THEN Err(self, ix.res)
    ELSE IF ix.txn_indx \notin DOMAIN self.processed_txns
            \/ ~IsPure(self.processed_txns[ix.txn_indx])
    THEN Err(self, "Panic")
    ELSE LET disputed_txn == self.processed_txns[ix.txn_indx].p IN
         IF disputed_txn.disputed
         THEN Err(self, "TxnAlreadyDisputed")
         ELSE Ok([self EXCEPT
                    !.accounts[ix.acnt_indx].available = @ - disputed_txn.amount,
                    !.accounts[ix.acnt_indx].held = @ + disputed_txn.amount,
                    !.processed_txns =
                        Append([@ EXCEPT ![ix.txn_indx].p.disputed = TRUE],
                               Dispute(ref_txn)),
                    !.txn_map = insert(@, ref_txn.ref_id, Len(self.processed_txns) + 1)])

\* Variant of process_dispute that refuses to hold more than is available
process_dispute_checks_funds(self, ref_txn) ==
    LET ix == get_ref_txn_indicies(self, ref_txn) IN
    IF ix.res # "Ok" THEN Err(self, ix.res)
    ELSE IF ix.txn_indx \notin DOMAIN self.processed_txns
            \/ ~IsPure(self.processed_txns[ix.txn_indx])
    THEN Err(self, "Panic")
    ELSE LET disputed_txn == self.processed_txns[ix.txn_indx].p IN
         IF disputed_txn.disputed
         THEN Err(self, "TxnAlreadyDisputed")
         ELSE IF self.accounts[ix.acnt_indx].available < disputed_txn.amount
         THEN Err(self, "AccountLacksFunds")
         ELSE Ok([self EXCEPT
                    !.accounts[ix.acnt_indx].available = @ - disputed_txn.amount,
                    !.accounts[ix.acnt_indx].held = @ + disputed_txn.amount,
                    !.processed_txns =
                        Append([@ EXCEPT ![ix.txn_indx].p.disputed = TRUE],
                               Dispute(ref_txn))])

\* Variant of process_dispute that holds the amount of a disputed withdrawal
\* with the opposite sign
process_dispute_credits_withdrawal(self, ref_txn) ==
    LET ix == get_ref_txn_indicies(self, ref_txn) IN
    IF ix.res # "Ok" THEN Err(self, ix.res)
    ELSE IF ix.txn_indx \notin DOMAIN self.processed_txns
            \/ ~IsPure(self.processed_txns[ix.txn_indx])
    THEN Err(self, "Panic")
    ELSE LET disputed_txn == self.processed_txns[ix.txn_indx].p
             signed == IF self.processed_txns[ix.txn_indx].type = "Withdrawal"
                       THEN -disputed_txn.amount ELSE disputed_txn.amount IN
         IF disputed_txn.disputed
         THEN Err(self, "TxnAlreadyDisputed")
         ELSE Ok([self EXCEPT
                    !.accounts[ix.acnt_indx].available = @ - signed,
                    !.accounts[ix.acnt_indx].held = @ + signed,
                    !.processed_txns =
                        Append([@ EXCEPT ![ix.txn_indx].p.disputed = TRUE],
                               Dispute(ref_txn))])

process_dispute(self, ref_txn) ==
    LET ix == get_ref_txn_indicies(self, ref_txn) IN
    IF ix.res # "Ok" THEN Err(self, ix.res)
    ELSE IF ix.txn_indx \notin DOMAIN self.processed_txns
            \/ ~IsPure(self.processed_txns[ix.txn_indx])
    THEN Err(self, "Panic")
    ELSE LET disputed_txn == self.processed_txns[ix.txn_indx].p IN
         IF disputed_txn.disputed
         THEN Err(self, "TxnAlreadyDisputed")
         ELSE Ok([self EXCEPT
                    !.accounts[ix.acnt_indx].available = @ - disputed_txn.amount,
                    !.accounts[ix.acnt_indx].held = @ + disputed_txn.amount,
                    !.processed_txns =
                        Append([@ EXCEPT ![ix.txn_indx].p.disputed = TRUE],
                               Dispute(ref_txn))])

\* Variant of process_resolve that leaves the disputed flag set
process_resolve_keeps_flag(self, ref_txn) ==
    LET ix == get_ref_txn_indicies(self, ref_txn) IN
    IF ix.res # "Ok" THEN Err(self, ix.res)
    ELSE IF ix.txn_indx \notin DOMAIN self.processed_txns
            \/ ~IsPure(self.processed_txns[ix.txn_indx])
    THEN Err(self, "Panic")
    ELSE LET disputed_txn == self.processed_txns[ix.txn_indx].p IN
         IF ~disputed_txn.disputed
         THEN Err(self, "TxnMustBeDisputed")
         ELSE Ok([self EXCEPT
                    !.accounts[ix.acnt_indx].held = @ - disputed_txn.amount,
                    !.accounts[ix.acnt_indx].available = @ + disputed_txn.amount,
                    !.processed_txns = Append(@, Resolve(ref_txn))])

\* Variant of process_resolve that credits available without releasing held
process_resolve_keeps_held(self, ref_txn) ==
    LET ix == get_ref_txn_indicies(self, ref_txn) IN
    IF ix.res # "Ok" THEN Err(self, ix.res)
    ELSE IF ix.txn_indx \notin DOMAIN self.processed_txns
            \/ ~IsPure(self.processed_txns[ix.txn_indx])
    THEN Err(self, "Panic")
    ELSE LET disputed_txn == self.processed_txns[ix.txn_indx].p IN
         IF ~disputed_txn.disputed
         THEN Err(self, "TxnMustBeDisputed")
         ELSE Ok([self EXCEPT
                    !.accounts[ix.acnt_indx].available = @ + disputed_txn.amount,
                    !.processed_txns =
                        Append([@ EXCEPT ![ix.txn_indx].p.disputed = FALSE],
                               Resolve(ref_txn))])

process_resolve(self, ref_txn) ==
    LET ix == get_ref_txn_indicies(self, ref_txn) IN
    IF ix.res # "Ok" THEN Err(self, ix.res)
    ELSE IF ix.txn_indx \notin DOMAIN self.processed_txns
            \/ ~IsPure(self.processed_txns[ix.txn_indx])
    THEN Err(self, "Panic")
    ELSE LET disputed_txn == self.processed_txns[ix.txn_indx].p IN
         IF ~disputed_txn.disputed
         THEN Err(self, "TxnMustBeDisputed")
         ELSE Ok([self EXCEPT
                    !.accounts[ix.acnt_indx].held = @ - disputed_txn.amount,
                    !.accounts[ix.acnt_indx].available = @ + disputed_txn.amount,
                    !.processed_txns =
                        Append([@ EXCEPT ![ix.txn_indx].p.disputed = FALSE],
                               Resolve(ref_txn))])

\* Variant of process_chargeback that credits available like a resolve
process_chargeback_credits(self, ref_txn) ==
    LET ix == get_ref_txn_indicies(self, ref_txn) IN
    IF ix.res # "Ok" THEN Err(self, ix.res)
    ELSE IF ix.txn_indx \notin DOMAIN self.processed_txns
            \/ ~IsPure(self.processed_txns[ix.txn_indx])
    THEN Err(self, "Panic")
    ELSE LET disputed_txn == self.processed_txns[ix.txn_indx].p IN
         IF ~disputed_txn.disputed
         THEN Err(self, "TxnMustBeDisputed")
         ELSE Ok([self EXCEPT
                    !.accounts[ix.acnt_indx].held = @ - disputed_txn.amount,
                    !.accounts[ix.acnt_indx].available = @ + disputed_txn.amount,
                    !.accounts[ix.acnt_indx].frozen = TRUE,
                    !.processed_txns =
                        Append([@ EXCEPT ![ix.txn_indx].p.disputed = FALSE],
                               Chargeback(ref_txn))])

\* Variant of process_chargeback that replaces the original entry instead of
\* appending
process_chargeback_replaces_entry(self, ref_txn) ==
    LET ix == get_ref_txn_indicies(self, ref_txn) IN
    IF ix.res # "Ok" THEN Err(self, ix.res)
    ELSE IF ix.txn_indx \notin DOMAIN self.processed_txns
            \/ ~IsPure(self.processed_txns[ix.txn_indx])
    THEN Err(self, "Panic")
    ELSE LET disputed_txn == self.processed_txns[ix.txn_indx].p IN
         IF ~disputed_txn.disputed
         THEN Err(self, "TxnMustBeDisputed")
         ELSE Ok([self EXCEPT
                    !.accounts[ix.acnt_indx].held = @ - disputed_txn.amount,
                    !.accounts[ix.acnt_indx].frozen = TRUE,
                    !.processed_txns =
                        [@ EXCEPT ![ix.txn_indx] = Chargeback(ref_txn)]])

\* Variant of process_chargeback that also takes the amount from available
process_chargeback_debits_available(self, ref_txn) ==
    LET ix == get_ref_txn_indicies(self, ref_txn) IN
    IF ix.res # "Ok" THEN Err(self, ix.res)
    ELSE IF ix.txn_indx \notin DOMAIN self.processed_txns
            \/ ~IsPure(self.processed_txns[ix.txn_indx])
    THEN Err(self, "Panic")
    ELSE LET disputed_txn == self.processed_txns[ix.txn_indx].p IN
         IF ~disputed_txn.disputed
         THEN Err(self, "TxnMustBeDisputed")
         ELSE Ok([self EXCEPT
                    !.accounts[ix.acnt_indx].held = @ - disputed_txn.amount,
                    !.accounts[ix.acnt_indx].available = @ - disputed_txn.amount,
                    !.accounts[ix.acnt_indx].frozen = TRUE,
                    !.processed_txns =
                        Append([@ EXCEPT ![ix.txn_indx].p.disputed = FALSE],
                               Chargeback(ref_txn))])

\* Variant of process_chargeback that leaves the disputed flag set
process_chargeback_keeps_flag(self, ref_txn) ==
    LET ix == get_ref_txn_indicies(self, ref_txn) IN
    IF ix.res # "Ok" THEN Err(self, ix.res)
    ELSE IF ix.txn_indx \notin DOMAIN self.processed_txns
            \/ ~IsPure(self.processed_txns[ix.txn_indx])
    THEN Err(self, "Panic")
    ELSE LET disputed_txn == self.processed_txns[ix.txn_indx].p IN
         IF ~disputed_txn.disputed
         THEN Err(self, "TxnMustBeDisputed")
         ELSE Ok([self EXCEPT
                    !.accounts[ix.acnt_indx].held = @ - disputed_txn.amount,
                    !.accounts[ix.acnt_indx].frozen = TRUE,
                    !.processed_txns = Append(@, Chargeback(ref_txn))])

\* Variant of process_chargeback that freezes every account
process_chargeback_freezes_all(self, ref_txn) ==
    LET ix == get_ref_txn_indicies(self, ref_txn) IN
    IF ix.res # "Ok" THEN Err(self, ix.res)
    ELSE IF ix.txn_indx \notin DOMAIN self.processed_txns
            \/ ~IsPure(self.processed_txns[ix.txn_indx])
    THEN Err(self, "Panic")
    ELSE LET disputed_txn == self.processed_txns[ix.txn_indx].p IN
         IF ~disputed_txn.disputed
         THEN Err(self, "TxnMustBeDisputed")
         ELSE Ok([self EXCEPT
                    !.accounts =
                        [i \in DOMAIN @ |->
                           IF i = ix.acnt_indx
                           THEN [@[i] EXCEPT !.held = @ - disputed_txn.amount,
                                             !.frozen = TRUE]
                           ELSE [@[i] EXCEPT !.frozen = TRUE]],
                    !.processed_txns =
                        Append([@ EXCEPT ![ix.txn_indx].p.disputed = FALSE],
                               Chargeback(ref_txn))])

process_chargeback(self, ref_txn) ==
    LET ix == get_ref_txn_indicies(self, ref_txn) IN
    IF ix.res # "Ok" THEN Err(self, ix.res)
    ELSE IF ix.txn_indx \notin DOMAIN self.processed_txns
            \/ ~IsPure(self.processed_txns[ix.txn_indx])
    THEN Err(self, "Panic")
    ELSE LET disputed_txn == self.processed_txns[ix.txn_indx].p IN
         IF ~disputed_txn.disputed
         THEN Err(self, "TxnMustBeDisputed")
         ELSE Ok([self EXCEPT
                    !.accounts[ix.acnt_indx].held = @ - disputed_txn.amount,
                    !.accounts[ix.acnt_indx].frozen = TRUE,
                    !.processed_txns =
                        Append([@ EXCEPT ![ix.txn_indx].p.disputed = FALSE],
                               Chargeback(ref_txn))])

process_txn(self, t) ==
    CASE t.type = "Deposit" -> process_deposit(self, t.p)
      [] t.type = "Withdrawal" -> process_withdrawl(self, t.p)
      [] t.type = "Dispute" -> process_dispute(self, t.r)
      [] t.type = "Resolve" -> process_resolve(self, t.r)
      [] t.type = "Chargeback" -> process_chargeback(self, t.r)

\* ------------------------------------------------------------- ingestion
\* A raw amount v stands for the decimal v / Unit
Unit == 10^RawDigits

\* Option<f64>: None is the empty sequence, Some(v) the sequence <<v>>
None == <<>>
Some(v) == <<v>>

InputTxnErr == {"MissingAmount", "UnsupportedType", "ShouldHaveNoAmount"}

\* Values of the type column; "transfer" stands for every unsupported value
TxnTypes == {"deposit", "withdrawal", "dispute", "resolve", "chargeback", "transfer"}

\* The raw records with client in acnts and amount absent or in amounts
InTxn(acnts, amounts) ==
    [txn_id : TxnIds, acnt_id : acnts,
     amount : {None} \cup {Some(v) : v \in amounts}, txn_type : TxnTypes]

\* A row of the source that fails to deserialize into a raw record
BadRow == [bad_row |-> TRUE]

\* A record source: one that cannot be opened, or its finite rows
NoSource == [opens |-> FALSE, rows |-> <<>>]
FileSource(rows) == [opens |-> TRUE, rows |-> rows]

\* The second run of a comparison of the two policies: the outcome of its
\* parsing, what it has written and its ledger; NoBatch before it starts or
\* when there is no second run
NoBatch == [pe |-> new, res |-> "None", output |-> <<>>]

\* Variant of get_specified_precision that rounds to the nearest multiple
get_specified_precision_rounds(val, decimal_precision) ==
    (((val * 10^decimal_precision + Unit \div 2) \div Unit) * Unit)
       \div 10^decimal_precision

\* floor(val * 10^p) / 10^p on fixed-point values (\div rounds toward
\* minus infinity, as floor does)
get_specified_precision(val, decimal_precision) ==
    (((val * 10^decimal_precision) \div Unit) * Unit) \div 10^decimal_precision

\* Variant of to_transaction that accepts an amount on a reference record
to_transaction_ignores_amount(self) ==
    IF self.txn_type \in {"deposit", "withdrawal"}
    THEN IF self.amount = None
         THEN [txn |-> NoTxn, res |-> "MissingAmount"]
         ELSE LET pure_txn ==
                    [txn_id |-> self.txn_id, acnt_id |-> self.acnt_id,
                     amount |-> get_specified_precision(self.amount[1], PRECISION),
                     disputed |-> FALSE] IN
              IF self.txn_type = "deposit"
              THEN [txn |-> Deposit(pure_txn), res |-> "Ok"]
              ELSE [txn |-> Withdrawal(pure_txn), res |-> "Ok"]
    ELSE IF self.txn_type \in {"dispute", "resolve", "chargeback"}
    THEN LET ref_txn == [acnt_id |-> self.acnt_id, ref_id |-> self.txn_id] IN
         IF self.txn_type = "dispute"
         THEN [txn |-> Dispute(ref_txn), res |-> "Ok"]
         ELSE IF self.txn_type = "resolve"
         THEN [txn |-> Resolve(ref_txn), res |-> "Ok"]
         ELSE [txn |-> Chargeback(ref_txn), res |-> "Ok"]
    ELSE [txn |-> NoTxn, res |-> "UnsupportedType"]

\* InTxn::to_transaction: the transaction, or the conversion error
to_transaction(self) ==
    IF self.txn_type \in {"deposit", "withdrawal"}
    THEN IF self.amount = None
         THEN [txn |-> NoTxn, res |-> "MissingAmount"]
         ELSE LET pure_txn ==
                    [txn_id |-> self.txn_id, acnt_id |-> self.acnt_id,
                     amount |-> get_specified_precision(self.amount[1], PRECISION),
                     disputed |-> FALSE] IN
              IF self.txn_type = "deposit"
              THEN [txn |-> Deposit(pure_txn), res |-> "Ok"]
              ELSE [txn |-> Withdrawal(pure_txn), res |-> "Ok"]
    ELSE IF self.txn_type \in {"dispute", "resolve", "chargeback"}
    THEN IF self.amount # None
         THEN [txn |-> NoTxn, res |-> "ShouldHaveNoAmount"]
         ELSE LET ref_txn == [acnt_id |-> self.acnt_id, ref_id |-> self.txn_id] IN
              IF self.txn_type = "dispute"
              THEN [txn |-> Dispute(ref_txn), res |-> "Ok"]
              ELSE IF self.txn_type = "resolve"
              THEN [txn |-> Resolve(ref_txn), res |-> "Ok"]
              ELSE [txn |-> Chargeback(ref_txn), res |-> "Ok"]
    ELSE [txn |-> NoTxn, res |-> "UnsupportedType"]

\* ---------------------------------------------------------- state machine
Self ==
    [accounts |-> accounts, acnt_map |-> acnt_map,
     processed_txns |-> processed_txns, txn_map |-> txn_map]

Init ==
    /\ accounts = new.accounts
    /\ acnt_map = new.acnt_map
    /\ processed_txns = new.processed_txns
    /\ txn_map = new.txn_map
    /\ txn = NoTxn
    /\ res = "None"
    /\ source = NoSource
    /\ cursor = 0
    /\ pc = "call"
    /\ txn_vec = <<>>
    /\ output = <<>>
    /\ batch = NoBatch

\* One call of process_txn by the caller.  The history is capped at MaxHistory
\* entries: a call that would be accepted beyond the cap is not made.
Call(t) ==
    LET out == process_txn(Self, t) IN
       /\ Len(out.pe.processed_txns) <= MaxHistory
       /\ accounts' = out.pe.accounts
       /\ acnt_map' = out.pe.acnt_map
       /\ processed_txns' = out.pe.processed_txns
       /\ txn_map' = out.pe.txn_map
       /\ txn' = t
       /\ res' = out.res
       /\ UNCHANGED <<source, cursor, pc, txn_vec, output, batch>>

DoDeposit == \E p \in PureTxn : Call(Deposit(p))
DoWithdrawal == \E p \in PureTxn : Call(Withdrawal(p))
DoDispute == \E r \in RefTxn : Call(Dispute(r))
DoResolve == \E r \in RefTxn : Call(Resolve(r))
DoChargeback == \E r \in RefTxn : Call(Chargeback(r))

Next == DoDeposit \/ DoWithdrawal \/ DoDispute \/ DoResolve \/ DoChargeback

Spec == Init /\ [][Next]_vars

TypeOK ==
    /\ res \in TxnErrors \cup {"Ok", "None"}
    /\ Len(processed_txns) <= MaxHistory

\* ------------------------------------------------------------- the runs
\* The smallest retained unit, as a raw amount
Step == Unit \div 10^PRECISION

\* Clients and amounts of the records of a source
SourceAcnts == {1}
SourceAmounts == {10 * Step + Step \div 2}

\* Rows of a source: deposits carry tx 1, withdrawals tx 2, every other
\* record names tx 1; or the row does not read
SourceRows ==
    {r \in InTxn(SourceAcnts, SourceAmounts) :
        r.txn_id = (IF r.txn_type = "withdrawal" THEN 2 ELSE 1)}
    \cup {BadRow}

Sources ==
    {NoSource} \cup
    {FileSource(rows) : rows \in UNION {[1..n -> SourceRows] : n \in 0..MaxRecords}}

LedgerUnchanged == UNCHANGED <<accounts, acnt_map, processed_txns, txn_map>>

\* "{:.*}" with PRECISION digits: the nearest multiple of the retained unit
fmt_precision(val) == ((val + Step \div 2) \div Step) * Step

\* One output row: client, available, held, total, locked
get_display_str(acnt) ==
    <<acnt.id, fmt_precision(acnt.available), fmt_precision(acnt.held),
      fmt_precision(get_total(acnt)), acnt.frozen>>

\* The rows written for a collection of accounts, in collection order
output_accounts(accs) == [i \in DOMAIN accs |-> get_display_str(accs[i])]

\* State before a run: an empty ledger, a source, nothing written
RunInit(start) ==
    /\ accounts = new.accounts
    /\ acnt_map = new.acnt_map
    /\ processed_txns = new.processed_txns
    /\ txn_map = new.txn_map
    /\ txn = NoTxn
    /\ res = "None"
    /\ source \in Sources
    /\ cursor = 0
    /\ pc = start
    /\ txn_vec = <<>>
    /\ output = <<>>
    /\ batch = NoBatch

\* Body of the streaming loop for one row: the transaction dispatched (if
\* any), the outcome, and the ledger after it
stream_record(self, result) ==
    IF result = BadRow
    THEN [txn |-> NoTxn, res |-> "ReadError", pe |-> self]
    ELSE LET t == to_transaction(result) IN
         IF t.res # "Ok"
         THEN [txn |-> NoTxn, res |-> t.res, pe |-> self]
         ELSE LET out == process_txn(self, t.txn) IN
              [txn |-> t.txn, res |-> out.res, pe |-> out.pe]

StreamInit == RunInit("open")

\* Opening the source; a source that cannot be opened ends the loop function
\* with an error, which the caller ignores
StreamOpen ==
    /\ pc = "open"
    /\ IF source.opens
       THEN pc' = "loop" /\ cursor' = 1 /\ res' = res
       ELSE pc' = "unopened" /\ cursor' = cursor /\ res' = "OpenError"
    /\ LedgerUnchanged
    /\ UNCHANGED <<txn, source, txn_vec, output, batch>>

\* Variant of StreamRecord that lets a row that fails to read or to convert
\* end the loop
StreamRecord_aborts ==
    /\ pc = "loop"
    /\ cursor \in DOMAIN source.rows
    /\ LET out == stream_record(Self, source.rows[cursor]) IN
          /\ accounts' = out.pe.accounts
          /\ acnt_map' = out.pe.acnt_map
          /\ processed_txns' = out.pe.processed_txns
          /\ txn_map' = out.pe.txn_map
          /\ txn' = out.txn
          /\ res' = out.res
          /\ IF out.res \in InputTxnErr \cup {"ReadError"}
             THEN pc' = "unopened" /\ cursor' = cursor
             ELSE pc' = pc /\ cursor' = cursor + 1
    /\ UNCHANGED <<source, txn_vec, output, batch>>

\* Variant of StreamRecord that does not move past a row that fails to read
StreamRecord_rereads ==
    /\ pc = "loop"
    /\ cursor \in DOMAIN source.rows
    /\ LET out == stream_record(Self, source.rows[cursor]) IN
          /\ accounts' = out.pe.accounts
          /\ acnt_map' = out.pe.acnt_map
          /\ processed_txns' = out.pe.processed_txns
          /\ txn_map' = out.pe.txn_map
          /\ txn' = out.txn
          /\ res' = out.res
          /\ cursor' = IF out.res = "ReadError" THEN cursor ELSE cursor + 1
    /\ UNCHANGED <<source, pc, txn_vec, output, batch>>

\* One iteration of the streaming loop
StreamRecord ==
    /\ pc = "loop"
    /\ cursor \in DOMAIN source.rows
    /\ LET out == stream_record(Self, source.rows[cursor]) IN
          /\ accounts' = out.pe.accounts
          /\ acnt_map' = out.pe.acnt_map
          /\ processed_txns' = out.pe.processed_txns
          /\ txn_map' = out.pe.txn_map
          /\ txn' = out.txn
          /\ res' = out.res
    /\ cursor' = cursor + 1
    /\ UNCHANGED <<source, pc, txn_vec, output, batch>>

\* The loop function has returned (rows exhausted, or source not opened):
\* the account collection is handed to the output stage
StreamOutput ==
    /\ \/ pc = "loop" /\ cursor = Len(source.rows) + 1
       \/ pc = "unopened"
    /\ output' = <<output_accounts(accounts)>>
    /\ pc' = "done"
    /\ LedgerUnchanged
    /\ UNCHANGED <<txn, res, source, cursor, txn_vec, batch>>

StreamNext == StreamOpen \/ StreamRecord \/ StreamOutput

SpecStream == StreamInit /\ [][StreamNext]_vars

\* The run is a sequential program: it takes its next step whenever it has one
SpecStreamFair == SpecStream /\ WF_vars(StreamNext)

\* ------------------------------------------------------------ batch run
\* Variant of parse_rows that leaves out a row that fails to read or convert
RECURSIVE parse_rows_skips(_, _)
parse_rows_skips(rows, vec) ==
    IF rows = <<>> THEN [res |-> "Ok", txn_vec |-> vec]
    ELSE LET result == Head(rows) IN
         IF result = BadRow THEN parse_rows_skips(Tail(rows), vec)
         ELSE LET t == to_transaction(result) IN
              IF t.res # "Ok" THEN parse_rows_skips(Tail(rows), vec)
              ELSE parse_rows_skips(Tail(rows), Append(vec, t.txn))

\* The loop of parse_txns_csv over the rows not yet read, vec being the
\* transactions collected so far
RECURSIVE parse_rows(_, _)
parse_rows(rows, vec) ==
    IF rows = <<>> THEN [res |-> "Ok", txn_vec |-> vec]
    ELSE LET result == Head(rows) IN
         IF result = BadRow THEN [res |-> "ReadError", txn_vec |-> <<>>]
         ELSE LET t == to_transaction(result) IN
              IF t.res # "Ok" THEN [res |-> "InvalidData", txn_vec |-> <<>>]
              ELSE parse_rows(Tail(rows), Append(vec, t.txn))

\* Variant of parse_txns_csv that leaves out the rows that fail to read or
\* to convert
parse_txns_csv_skips(src) ==
    IF ~src.opens THEN [res |-> "OpenError", txn_vec |-> <<>>]
    ELSE parse_rows_skips(src.rows, <<>>)

\* Variant of parse_txns_csv that collects the transactions in reverse order
parse_txns_csv_reversed(src) ==
    IF ~src.opens THEN [res |-> "OpenError", txn_vec |-> <<>>]
    ELSE LET txns == parse_rows(src.rows, <<>>) IN
         [res |-> txns.res,
          txn_vec |-> [i \in DOMAIN txns.txn_vec |->
                          txns.txn_vec[Len(txns.txn_vec) + 1 - i]]]

\* The transactions of the whole source, or the error
parse_txns_csv(src) ==
    IF ~src.opens THEN [res |-> "OpenError", txn_vec |-> <<>>]
    ELSE parse_rows(src.rows, <<>>)

BatchInit == RunInit("parse")

\* Parsing the whole source; an error ends the run
BatchParse ==
    /\ pc = "parse"
    /\ LET txns == parse_txns_csv(source) IN
          IF txns.res = "Ok"
          THEN txn_vec' = txns.txn_vec /\ pc' = "loop" /\ cursor' = 1 /\ res' = res
          ELSE txn_vec' = txn_vec /\ pc' = "aborted" /\ cursor' = cursor
               /\ res' = txns.res
    /\ LedgerUnchanged
    /\ UNCHANGED <<txn, source, output, batch>>

\* One iteration of the dispatch loop
BatchRecord ==
    /\ pc = "loop"
    /\ cursor \in DOMAIN txn_vec
    /\ LET out == process_txn(Self, txn_vec[cursor]) IN
          /\ accounts' = out.pe.accounts
          /\ acnt_map' = out.pe.acnt_map
          /\ processed_txns' = out.pe.processed_txns
          /\ txn_map' = out.pe.txn_map
          /\ txn' = txn_vec[cursor]
          /\ res' = out.res
    /\ cursor' = cursor + 1
    /\ UNCHANGED <<source, pc, txn_vec, output, batch>>

\* All transactions dispatched: the accounts are handed to the output stage
BatchOutput ==
    /\ pc = "loop"
    /\ cursor = Len(txn_vec) + 1
    /\ output' = <<output_accounts(accounts)>>
    /\ pc' = "done"
    /\ LedgerUnchanged
    /\ UNCHANGED <<txn, res, source, cursor, txn_vec, batch>>

BatchNext == BatchParse \/ BatchRecord \/ BatchOutput

SpecBatch == BatchInit /\ [][BatchNext]_vars

\* ----------------------------------------------- the adapter on one record
\* Raw amounts given to the adapter (0.12345 included)
RawAmounts == (-MaxRaw..MaxRaw) \cup {12345 * 10^(RawDigits - 5)}

AdapterInit ==
    /\ accounts = new.accounts
    /\ acnt_map = new.acnt_map
    /\ processed_txns = new.processed_txns
    /\ txn_map = new.txn_map
    /\ txn = NoTxn
    /\ res = "None"
    /\ \E in_txn \in InTxn(AcntIds, RawAmounts) : source = FileSource(<<in_txn>>)
    /\ cursor = 1
    /\ pc = "convert"
    /\ txn_vec = <<>>
    /\ output = <<>>
    /\ batch = NoBatch

\* The adapter applied to the raw record
Convert ==
    /\ pc = "convert"
    /\ LET t == to_transaction(source.rows[cursor]) IN
          txn' = t.txn /\ res' = t.res
    /\ pc' = "converted"
    /\ LedgerUnchanged
    /\ UNCHANGED <<source, cursor, txn_vec, output, batch>>

\* The truncation applied again to the amount the adapter produced
Truncate ==
    /\ pc = "converted"
    /\ res = "Ok"
    /\ IsPure(txn)
    /\ txn' = [txn EXCEPT !.p.amount = get_specified_precision(@, PRECISION)]
    /\ pc' = "truncated"
    /\ LedgerUnchanged
    /\ UNCHANGED <<res, source, cursor, txn_vec, output, batch>>

AdapterNext == Convert \/ Truncate

SpecAdapter == AdapterInit /\ [][AdapterNext]_vars

\* ------------------------------------- the two policies on the same source
\* Rows of the source given to both policies: deposits and withdrawals with
\* an amount, references without one, a deposit without an amount, and a row
\* that does not read
BothRows ==
    {r \in InTxn(AcntIds, SourceAmounts) :
        \/ r.txn_type \in {"deposit", "withdrawal"} /\ r.amount # None
        \/ r.txn_type \in {"dispute", "resolve", "chargeback"} /\ r.amount = None
        \/ r.txn_type = "deposit" /\ r.amount = None /\ r.txn_id = 1 /\ r.acnt_id = 1}
    \cup {BadRow}

BothSources ==
    {NoSource} \cup
    {FileSource(rows) : rows \in UNION {[1..n -> BothRows] : n \in 0..MaxRecords}}

\* A streaming run (on the ledger variables) and a batch run (on batch) of
\* the same source, each from an empty ledger
BothInit ==
    /\ accounts = new.accounts
    /\ acnt_map = new.acnt_map
    /\ processed_txns = new.processed_txns
    /\ txn_map = new.txn_map
    /\ txn = NoTxn
    /\ res = "None"
    /\ source \in BothSources
    /\ cursor = 0
    /\ pc = "open"
    /\ txn_vec = <<>>
    /\ output = <<>>
    /\ batch = NoBatch

\* The streaming run opens the source; the batch run parses the whole of it
BothOpen ==
    /\ pc = "open"
    /\ IF source.opens
       THEN pc' = "loop" /\ cursor' = 1 /\ res' = res
       ELSE pc' = "unopened" /\ cursor' = cursor /\ res' = "OpenError"
    /\ LET txns == parse_txns_csv(source) IN
          /\ txn_vec' = txns.txn_vec
          /\ batch' = [batch EXCEPT !.res = txns.res]
    /\ LedgerUnchanged
    /\ UNCHANGED <<txn, source, output>>

\* One iteration of the streaming loop, and of the dispatch loop of the batch
\* run if its parsing succeeded and it still has a transaction
BothRecord ==
    /\ pc = "loop"
    /\ cursor \in DOMAIN source.rows
    /\ LET out == stream_record(Self, source.rows[cursor]) IN
          /\ accounts' = out.pe.accounts
          /\ acnt_map' = out.pe.acnt_map
          /\ processed_txns' = out.pe.processed_txns
          /\ txn_map' = out.pe.txn_map
          /\ txn' = out.txn
          /\ res' = out.res
    /\ batch' = IF batch.res = "Ok" /\ cursor \in DOMAIN txn_vec
                THEN [batch EXCEPT !.pe = process_txn(batch.pe, txn_vec[cursor]).pe]
                ELSE batch
    /\ cursor' = cursor + 1
    /\ UNCHANGED <<source, pc, txn_vec, output>>

\* The streaming run hands its accounts to the output stage; so does the
\* batch run unless its parsing failed
BothOutput ==
    /\ \/ pc = "loop" /\ cursor = Len(source.rows) + 1
       \/ pc = "unopened"
    /\ output' = <<output_accounts(accounts)>>
    /\ batch' = IF batch.res = "Ok"
                THEN [batch EXCEPT !.output = <<output_accounts(batch.pe.accounts)>>]
                ELSE batch
    /\ pc' = "done"
    /\ LedgerUnchanged
    /\ UNCHANGED <<txn, res, source, cursor, txn_vec>>

BothNext == BothOpen \/ BothRecord \/ BothOutput

SpecBoth == BothInit /\ [][BothNext]_vars

\* ------------------------------------------------- longer call sequences
\* Call by call as in Spec, with one amount and a longer history
MaxLongHistory == 5
LongAmounts == {10}

LongPureTxn ==
    [txn_id : TxnIds, acnt_id : AcntIds, amount : LongAmounts, disputed : {FALSE}]

\* One call of process_txn; a call that would be accepted beyond
\* MaxLongHistory entries is not made
LongCall(t) ==
    LET out == process_txn(Self, t) IN
       /\ Len(out.pe.processed_txns) <= MaxLongHistory
       /\ accounts' = out.pe.accounts
       /\ acnt_map' = out.pe.acnt_map
       /\ processed_txns' = out.pe.processed_txns
       /\ txn_map' = out.pe.txn_map
       /\ txn' = t
       /\ res' = out.res
       /\ UNCHANGED <<source, cursor, pc, txn_vec, output, batch>>

LongPure == \E p \in LongPureTxn : LongCall(Deposit(p)) \/ LongCall(Withdrawal(p))
LongRef ==
    \E r \in RefTxn : LongCall(Dispute(r)) \/ LongCall(Resolve(r))
                         \/ LongCall(Chargeback(r))

LongNext == LongPure \/ LongRef

SpecLong == Init /\ [][LongNext]_vars

\* ------------------------------------------------------- claim vocabulary
\* Positions of the Deposit/Withdrawal entries of the history
PurePositions == {i \in DOMAIN processed_txns : IsPure(processed_txns[i])}

\* Transaction ids of the accepted Deposit/Withdrawal entries
AcceptedIds == {processed_txns[i].p.txn_id : i \in PurePositions}

\* Account ids present in the account collection
KnownAcnts == {accounts[i].id : i \in DOMAIN accounts}

\* The account with id a in the collection accs
AcntIn(accs, a) == accs[CHOOSE i \in DOMAIN accs : accs[i].id = a]

\* The account with id a in the account collection (a \in KnownAcnts)
AcntOf(a) == AcntIn(accounts, a)

\* Account id named by a transaction
NamedAcnt(t) == IF IsPure(t) THEN t.p.acnt_id ELSE t.r.acnt_id

IsRef(t) == t.type \in {"Dispute", "Resolve", "Chargeback"}

\* C1: when process_txn returns a business error, accounts, account index,
\* history (disputed flags included) and transaction index are all exactly
\* as before the call.
C1_ErrorLeavesLedgerUnchanged ==
    [][res' \in TxnErrors =>
         /\ accounts' = accounts
         /\ acnt_map' = acnt_map
         /\ processed_txns' = processed_txns
         /\ txn_map' = txn_map]_vars

\* A withdrawal rejected at the last check (frozen), on a non-empty ledger
C1_Witness ==
    /\ txn.type = "Withdrawal"
    /\ res = "AccountFrozen"
    /\ processed_txns # <<>>

\* C2: a Deposit/Withdrawal carrying an already accepted txn_id is rejected
\* with TxnIdAlreadyExists, and the history never holds two
\* Deposit/Withdrawal entries with the same txn_id.
C2_NoDuplicateIds ==
    \A i, j \in PurePositions :
        processed_txns[i].p.txn_id = processed_txns[j].p.txn_id => i = j

C2_IdAcceptedOnce ==
    /\ []C2_NoDuplicateIds
    /\ [][(IsPure(txn') /\ txn'.p.txn_id \in AcceptedIds)
            => (res' = "TxnIdAlreadyExists"
                /\ processed_txns' = processed_txns)]_vars

\* An accepted deposit id offered again as a withdrawal by the other account
C2_Witness ==
    /\ txn.type = "Withdrawal"
    /\ res = "TxnIdAlreadyExists"
    /\ \E i \in PurePositions :
          /\ processed_txns[i].type = "Deposit"
          /\ processed_txns[i].p.txn_id = txn.p.txn_id
          /\ processed_txns[i].p.acnt_id # txn.p.acnt_id
          /\ txn.p.acnt_id \in KnownAcnts

\* C3: a Withdrawal is never accepted with amount > available; right after
\* an accepted Withdrawal available >= 0; a withdrawal of exactly the
\* available amount (fresh id, existing unfrozen account) is accepted and
\* leaves available = 0.
C3_WithdrawalNeverOverdraws ==
    [][txn'.type = "Withdrawal" =>
         LET p == txn'.p IN
         /\ res' = "Ok" =>
              /\ p.acnt_id \in KnownAcnts
              /\ AcntOf(p.acnt_id).available >= p.amount
              /\ AcntIn(accounts', p.acnt_id).available >= 0
         /\ (/\ p.txn_id \notin AcceptedIds
             /\ p.acnt_id \in KnownAcnts
             /\ ~AcntOf(p.acnt_id).frozen
             /\ AcntOf(p.acnt_id).available = p.amount)
            => (res' = "Ok" /\ AcntIn(accounts', p.acnt_id).available = 0)]_vars

\* An accepted withdrawal of exactly the available amount
C3_Witness ==
    /\ txn.type = "Withdrawal"
    /\ res = "Ok"
    /\ txn.p.amount > 0
    /\ AcntOf(txn.p.acnt_id).available = 0

\* C4 (as claimed): once an account is frozen, every later transaction naming
\* it fails with AccountFrozen.
C4_FrozenAlwaysAccountFrozen ==
    [][(NamedAcnt(txn') \in KnownAcnts /\ AcntOf(NamedAcnt(txn')).frozen)
         => res' = "AccountFrozen"]_vars

\* C4 (amended): once an account is frozen, every later transaction naming it
\* is rejected; the error is AccountFrozen unless an earlier check of the
\* handler fails first: TxnIdAlreadyExists for a Deposit/Withdrawal whose id
\* is already indexed, AccountLacksFunds for a Withdrawal whose amount
\* exceeds available.
C4_FrozenRejectsAll ==
    [][(NamedAcnt(txn') \in KnownAcnts /\ AcntOf(NamedAcnt(txn')).frozen)
         => res' = (IF IsPure(txn') /\ txn'.p.txn_id \in AcceptedIds
                    THEN "TxnIdAlreadyExists"
                    ELSE IF txn'.type = "Withdrawal"
                            /\ AcntOf(NamedAcnt(txn')).available < txn'.p.amount
                    THEN "AccountLacksFunds"
                    ELSE "AccountFrozen")]_vars

\* A deposit with a fresh id refused by an account a chargeback has frozen
C4_Witness ==
    /\ txn.type = "Deposit"
    /\ res = "AccountFrozen"
    /\ AcntOf(txn.p.acnt_id).frozen
    /\ \E i \in DOMAIN processed_txns :
          /\ processed_txns[i].type = "Chargeback"
          /\ processed_txns[i].r.acnt_id = txn.p.acnt_id

\* C5: once an account's frozen flag is set it stays set, and the account's
\* available and held keep the values they had, whatever operation follows.
C5_FrozenIsPermanent ==
    [][\A i \in DOMAIN accounts :
          accounts[i].frozen =>
             (i \in DOMAIN accounts' /\ accounts'[i] = accounts[i])]_vars

\* A transaction accepted on another account while an account is frozen
C5_Witness ==
    /\ res = "Ok"
    /\ txn.type \in {"Deposit", "Dispute"}
    /\ \E i \in DOMAIN accounts :
          accounts[i].frozen /\ accounts[i].id # NamedAcnt(txn)

\* C6: Withdrawal reports the first failing precondition in the order
\* TxnIdAlreadyExists, AccountDoesNotExist, AccountLacksFunds, AccountFrozen;
\* a withdrawal on a frozen account whose amount exceeds available is
\* rejected with AccountLacksFunds.
C6_WithdrawalCheckOrder ==
    [][txn'.type = "Withdrawal" =>
         LET p == txn'.p IN
         res' = (IF p.txn_id \in AcceptedIds THEN "TxnIdAlreadyExists"
                 ELSE IF p.acnt_id \notin KnownAcnts THEN "AccountDoesNotExist"
                 ELSE IF AcntOf(p.acnt_id).available < p.amount
                      THEN "AccountLacksFunds"
                 ELSE IF AcntOf(p.acnt_id).frozen THEN "AccountFrozen"
                 ELSE "Ok")]_vars

\* A fresh-id withdrawal exceeding available on a frozen account
C6_Witness ==
    /\ txn.type = "Withdrawal"
    /\ res = "AccountLacksFunds"
    /\ txn.p.txn_id \notin AcceptedIds
    /\ AcntOf(txn.p.acnt_id).frozen
    /\ AcntOf(txn.p.acnt_id).available < txn.p.amount

\* C7: Dispute, Resolve and Chargeback report the first failing lookup check
\* in the order AccountDoesNotExist, AccountFrozen, TxnIdDoesNotExist; the
\* disputed flag decides the result (TxnAlreadyDisputed / TxnMustBeDisputed /
\* accepted) only when all three pass.
C7_RefLookupOrder ==
    [][IsRef(txn') =>
         LET r == txn'.r IN
         IF r.acnt_id \notin KnownAcnts THEN res' = "AccountDoesNotExist"
         ELSE IF AcntOf(r.acnt_id).frozen THEN res' = "AccountFrozen"
         ELSE IF r.ref_id \notin AcceptedIds THEN res' = "TxnIdDoesNotExist"
         ELSE LET flag == \E i \in PurePositions :
                             /\ processed_txns[i].p.txn_id = r.ref_id
                             /\ processed_txns[i].p.disputed
              IN res' = (IF txn'.type = "Dispute"
                         THEN (IF flag THEN "TxnAlreadyDisputed" ELSE "Ok")
                         ELSE (IF flag THEN "Ok" ELSE "TxnMustBeDisputed"))]_vars

\* A reference to an unindexed id naming a frozen account reports the account
C7_Witness ==
    /\ IsRef(txn)
    /\ res = "AccountFrozen"
    /\ txn.r.ref_id \notin AcceptedIds

\* Named account position and referenced history position of an accepted
\* reference transaction, read off the state before the call
RefAcntPos(r) == CHOOSE i \in DOMAIN accounts : accounts[i].id = r.acnt_id
RefTxnPos(r) ==
    CHOOSE j \in PurePositions : processed_txns[j].p.txn_id = r.ref_id

\* C8: an accepted Dispute moves the referenced amount from available to held
\* on the named account (total and frozen unchanged), sets disputed on the
\* original entry in place, appends one Dispute entry, and leaves both
\* indices unchanged.
C8_DisputeEffect ==
    [][(txn'.type = "Dispute" /\ res' = "Ok") =>
         LET i == RefAcntPos(txn'.r)
             j == RefTxnPos(txn'.r)
             m == processed_txns[j].p.amount IN
         /\ Len(accounts') = Len(accounts)
         /\ accounts'[i].id = accounts[i].id
         /\ accounts'[i].available = accounts[i].available - m
         /\ accounts'[i].held = accounts[i].held + m
         /\ get_total(accounts'[i]) = get_total(accounts[i])
         /\ accounts'[i].frozen = accounts[i].frozen
         /\ Len(processed_txns') = Len(processed_txns) + 1
         /\ processed_txns'[Len(processed_txns')] = txn'
         /\ processed_txns'[j] = [processed_txns[j] EXCEPT !.p.disputed = TRUE]
         /\ \A k \in DOMAIN processed_txns :
               k # j => processed_txns'[k] = processed_txns[k]
         /\ txn_map' = txn_map
         /\ acnt_map' = acnt_map]_vars

\* An accepted dispute of a transaction with a non-zero amount
C8_Witness ==
    /\ txn.type = "Dispute"
    /\ res = "Ok"
    /\ AcntOf(txn.r.acnt_id).held # 0

\* C9: an accepted Resolve moves the referenced amount back from held to
\* available (total and frozen unchanged), clears disputed on the original
\* entry, appends one Resolve entry, and leaves the transaction index
\* unchanged.
C9_ResolveEffect ==
    [][(txn'.type = "Resolve" /\ res' = "Ok") =>
         LET i == RefAcntPos(txn'.r)
             j == RefTxnPos(txn'.r)
             m == processed_txns[j].p.amount IN
         /\ Len(accounts') = Len(accounts)
         /\ accounts'[i].id = accounts[i].id
         /\ accounts'[i].held = accounts[i].held - m
         /\ accounts'[i].available = accounts[i].available + m
         /\ get_total(accounts'[i]) = get_total(accounts[i])
         /\ accounts'[i].frozen = accounts[i].frozen
         /\ Len(processed_txns') = Len(processed_txns) + 1
         /\ processed_txns'[Len(processed_txns')] = txn'
         /\ processed_txns'[j] = [processed_txns[j] EXCEPT !.p.disputed = FALSE]
         /\ \A k \in DOMAIN processed_txns :
               k # j => processed_txns'[k] = processed_txns[k]
         /\ txn_map' = txn_map]_vars

\* An accepted resolve
C9_Witness ==
    /\ txn.type = "Resolve"
    /\ res = "Ok"
    /\ Len(processed_txns) >= 3

\* C10: an accepted Chargeback removes the referenced amount from held,
\* leaves available untouched and freezes the account; it clears disputed on
\* the original entry, appends one Chargeback entry and leaves the
\* transaction index unchanged.  Deposit 10, dispute, chargeback yields the
\* account {available 0, held 0, total 0, frozen true}.
C10_Scenario ==
    LET d == [txn_id |-> 1, acnt_id |-> 1, amount |-> 10, disputed |-> FALSE]
        r == [acnt_id |-> 1, ref_id |-> 1] IN
    processed_txns = <<Deposit(d), Dispute(r), Chargeback(r)>>
        => /\ accounts = <<Account(1, 0, 0, TRUE)>>
           /\ get_total(accounts[1]) = 0

C10_ChargebackEffect ==
    /\ []C10_Scenario
    /\ [][(txn'.type = "Chargeback" /\ res' = "Ok") =>
            LET i == RefAcntPos(txn'.r)
                j == RefTxnPos(txn'.r)
                m == processed_txns[j].p.amount IN
            /\ Len(accounts') = Len(accounts)
            /\ accounts'[i].id = accounts[i].id
            /\ accounts'[i].held = accounts[i].held - m
            /\ accounts'[i].available = accounts[i].available
            /\ accounts'[i].frozen
            /\ Len(processed_txns') = Len(processed_txns) + 1
            /\ processed_txns'[Len(processed_txns')] = txn'
            /\ processed_txns'[j] = [processed_txns[j] EXCEPT !.p.disputed = FALSE]
            /\ \A k \in DOMAIN processed_txns :
                  k # j => processed_txns'[k] = processed_txns[k]
            /\ txn_map' = txn_map]_vars

\* The chargeback of the scenario has just been accepted
C10_Witness ==
    /\ txn.type = "Chargeback"
    /\ res = "Ok"
    /\ processed_txns =
         <<Deposit([txn_id |-> 1, acnt_id |-> 1, amount |-> 10, disputed |-> FALSE]),
           Dispute([acnt_id |-> 1, ref_id |-> 1]),
           Chargeback([acnt_id |-> 1, ref_id |-> 1])>>

\* C11: from every reachable state in which Dispute(r) is accepted, Dispute(r)
\* followed by Resolve(r) is accepted too and gives back the same accounts,
\* account index, transaction index and disputed flags; the history has only
\* grown by the Dispute and the Resolve entry.
C11_ResolveReversesDispute ==
    \A r \in RefTxn :
        LET d == process_dispute(Self, r) IN
        d.res = "Ok" =>
            LET u == process_resolve(d.pe, r) IN
            /\ u.res = "Ok"
            /\ u.pe.accounts = accounts
            /\ u.pe.acnt_map = acnt_map
            /\ u.pe.txn_map = txn_map
            /\ u.pe.processed_txns = processed_txns \o <<Dispute(r), Resolve(r)>>

\* A Resolve has just undone the Dispute recorded right before it, on an
\* account whose available the dispute had changed
C11_Witness ==
    /\ txn.type = "Resolve"
    /\ res = "Ok"
    /\ Len(processed_txns) >= 3
    /\ processed_txns[Len(processed_txns) - 1] = Dispute(txn.r)
    /\ AcntOf(txn.r.acnt_id).available # 0
    /\ AcntOf(txn.r.acnt_id).held = 0

\* C12: an accepted Deposit either adds its amount to available of the
\* existing account (held, frozen unchanged, no account added) or, when the
\* account does not exist, appends the account {amount, 0, false} to the
\* collection; in both cases it appends exactly one Deposit entry to the
\* history and indexes that new position under its txn_id.
C12_DepositEffect ==
    [][(txn'.type = "Deposit" /\ res' = "Ok") =>
         LET p == txn'.p IN
         /\ p.txn_id \notin AcceptedIds
         /\ IF p.acnt_id \in KnownAcnts
            THEN LET i == CHOOSE k \in DOMAIN accounts : accounts[k].id = p.acnt_id IN
                 /\ ~accounts[i].frozen
                 /\ Len(accounts') = Len(accounts)
                 /\ accounts'[i].id = accounts[i].id
                 /\ accounts'[i].available = accounts[i].available + p.amount
                 /\ accounts'[i].held = accounts[i].held
                 /\ accounts'[i].frozen = accounts[i].frozen
                 /\ acnt_map' = acnt_map
            ELSE /\ Len(accounts') = Len(accounts) + 1
                 /\ accounts'[Len(accounts')] = Account(p.acnt_id, p.amount, 0, FALSE)
                 /\ \A k \in DOMAIN accounts : accounts'[k] = accounts[k]
         /\ processed_txns' = Append(processed_txns, Deposit(p))
         /\ DOMAIN txn_map' = DOMAIN txn_map \cup {p.txn_id}
         /\ txn_map'[p.txn_id] = Len(processed_txns')
         /\ \A t \in DOMAIN txn_map : txn_map'[t] = txn_map[t]]_vars

\* A deposit has just created a second account
C12_Witness ==
    /\ txn.type = "Deposit"
    /\ res = "Ok"
    /\ Len(accounts) = 2
    /\ accounts[2] = Account(txn.p.acnt_id, txn.p.amount, 0, FALSE)
    /\ processed_txns[Len(processed_txns)] = txn

\* A deposit has just been added to an existing account
C12_WitnessExisting ==
    /\ txn.type = "Deposit"
    /\ res = "Ok"
    /\ Cardinality({i \in DOMAIN processed_txns :
                      /\ processed_txns[i].type = "Deposit"
                      /\ processed_txns[i].p.acnt_id = txn.p.acnt_id}) = 2

\* C13: every account of the collection has an accepted Deposit for its id in
\* the history, and a step that is not an accepted Deposit (any Withdrawal,
\* Dispute, Resolve or Chargeback, and any rejected Deposit) adds no account
\* and no account-index entry.
C13_EveryAccountHasDeposit ==
    \A i \in DOMAIN accounts :
        \E j \in DOMAIN processed_txns :
            /\ processed_txns[j].type = "Deposit"
            /\ processed_txns[j].p.acnt_id = accounts[i].id

C13_AccountsOnlyByDeposit ==
    /\ []C13_EveryAccountHasDeposit
    /\ [][~(txn'.type = "Deposit" /\ res' = "Ok") =>
            /\ Len(accounts') = Len(accounts)
            /\ \A i \in DOMAIN accounts : accounts'[i].id = accounts[i].id
            /\ acnt_map' = acnt_map]_vars

\* A withdrawal naming an account nobody deposited to has just been refused
\* while another account exists
C13_Witness ==
    /\ txn.type = "Withdrawal"
    /\ res = "AccountDoesNotExist"
    /\ Len(accounts) = 1
    /\ txn.p.acnt_id \notin KnownAcnts

\* Accepted deposits minus accepted withdrawals of account a in the history h
RECURSIVE NetFlow(_, _)
NetFlow(h, a) ==
    IF h = <<>> THEN 0
    ELSE LET e == h[Len(h)]
             rest == NetFlow(SubSeq(h, 1, Len(h) - 1), a) IN
         IF e.type = "Deposit" /\ e.p.acnt_id = a THEN rest + e.p.amount
         ELSE IF e.type = "Withdrawal" /\ e.p.acnt_id = a THEN rest - e.p.amount
         ELSE rest

\* C14: as long as no dispute, resolve or chargeback has been accepted, each
\* account's available is the sum of its accepted deposits minus the sum of
\* its accepted withdrawals, and its held is 0.
C14_BalanceIsNetFlow ==
    (\A j \in DOMAIN processed_txns : IsPure(processed_txns[j])) =>
        \A i \in DOMAIN accounts :
            /\ accounts[i].available = NetFlow(processed_txns, accounts[i].id)
            /\ accounts[i].held = 0

\* A deposit and a withdrawal accepted on one account, nothing disputed
C14_Witness ==
    /\ \A j \in DOMAIN processed_txns : IsPure(processed_txns[j])
    /\ \E a \in KnownAcnts :
          /\ Cardinality({j \in DOMAIN processed_txns :
                 processed_txns[j].type = "Deposit"
                 /\ processed_txns[j].p.acnt_id = a}) >= 1
          /\ Cardinality({j \in DOMAIN processed_txns :
                 processed_txns[j].type = "Withdrawal"
                 /\ processed_txns[j].p.acnt_id = a}) >= 1
          /\ AcntOf(a).available # 0

\* The accepted reference transactions naming transaction id t, in order
RefsTo(t) == SelectSeq(processed_txns, LAMBDA e : IsRef(e) /\ e.r.ref_id = t)

\* C15: Dispute is accepted only when the referenced entry's disputed flag is
\* clear (otherwise TxnAlreadyDisputed) and sets it; Resolve and Chargeback
\* are accepted only when it is set (otherwise TxnMustBeDisputed) and clear
\* it.  So the accepted reference transactions on one transaction alternate
\* Dispute, Resolve/Chargeback, Dispute, ... starting with a Dispute.
C15_Alternation ==
    \A t \in TxnIds :
        LET s == RefsTo(t) IN
        /\ \A k \in DOMAIN s :
              IF k % 2 = 1 THEN s[k].type = "Dispute"
              ELSE s[k].type \in {"Resolve", "Chargeback"}
        /\ \A j \in PurePositions :
              processed_txns[j].p.txn_id = t =>
                 (processed_txns[j].p.disputed <=> Len(s) % 2 = 1)

C15_DisputeLifecycle ==
    /\ []C15_Alternation
    /\ [][(IsRef(txn') /\ res' \in {"Ok", "TxnAlreadyDisputed", "TxnMustBeDisputed"}) =>
            LET j == RefTxnPos(txn'.r)
                flag == processed_txns[j].p.disputed IN
            IF txn'.type = "Dispute"
            THEN /\ res' = (IF flag THEN "TxnAlreadyDisputed" ELSE "Ok")
                 /\ processed_txns'[j].p.disputed
            ELSE /\ res' = (IF flag THEN "Ok" ELSE "TxnMustBeDisputed")
                 /\ ~processed_txns'[j].p.disputed]_vars

\* A transaction disputed again after its first dispute was resolved
C15_Witness ==
    /\ txn.type = "Dispute"
    /\ res = "Ok"
    /\ LET s == RefsTo(txn.r.ref_id) IN
       /\ Len(s) = 3
       /\ s[2].type = "Resolve"

\* C16: a transaction rejected in a reachable state is rejected again with
\* the same error, and leaves the ledger as the first rejection left it, when
\* it is applied a second and a third time right afterwards.
C16_RejectionIdempotent ==
    \A t \in Transaction :
        LET first == process_txn(Self, t) IN
        first.res # "Ok" =>
            LET second == process_txn(first.pe, t)
                third == process_txn(second.pe, t) IN
            /\ second.res = first.res
            /\ second.pe = first.pe
            /\ third.res = first.res
            /\ third.pe = first.pe

\* Right after a refused dispute of an already disputed transaction, the
\* same dispute is refused again
C16_Witness ==
    /\ txn.type = "Dispute"
    /\ res = "TxnAlreadyDisputed"
    /\ process_txn(Self, txn).res = res

\* Entry e with its disputed flag inverted (e a Deposit/Withdrawal entry)
FlagFlipped(e) == [e EXCEPT !.p.disputed = ~@]

\* C17: an accepted transaction appends exactly one entry, the transaction
\* itself, at the end of the history; a rejected one appends none; no step
\* removes, moves or rewrites an existing entry other than by flipping the
\* disputed flag of a Deposit/Withdrawal entry.
C17_HistoryAppendOnly ==
    [][/\ res' = "Ok" =>
            /\ Len(processed_txns') = Len(processed_txns) + 1
            /\ processed_txns'[Len(processed_txns')] = txn'
       /\ res' # "Ok" => processed_txns' = processed_txns
       /\ \A k \in DOMAIN processed_txns :
             /\ k \in DOMAIN processed_txns'
             /\ \/ processed_txns'[k] = processed_txns[k]
                \/ /\ IsPure(processed_txns[k])
                   /\ processed_txns'[k] = FlagFlipped(processed_txns[k])]_vars

\* A chargeback has been appended after the entries before it, of which only
\* the flag of the disputed one changed
C17_Witness ==
    /\ txn.type = "Chargeback"
    /\ res = "Ok"
    /\ Len(processed_txns) = 4
    /\ processed_txns[4] = txn
    /\ processed_txns[1].type = "Deposit"
    /\ processed_txns[2].type = "Withdrawal"
    /\ processed_txns[3].type = "Dispute"

\* C18: txn_map maps t to position i exactly when history[i] is a Deposit or
\* Withdrawal with txn_id = t; Dispute, Resolve and Chargeback entries are
\* never indexed, the index has as many entries as the history has
\* Deposit/Withdrawal entries, and an index entry is never overwritten or
\* removed.
C18_IndexExact ==
    /\ \A t \in TxnIds : \A i \in 1..MaxHistory :
          (t \in DOMAIN txn_map /\ txn_map[t] = i)
             <=> (/\ i \in PurePositions
                  /\ processed_txns[i].p.txn_id = t)
    /\ \A t \in DOMAIN txn_map : t \in TxnIds /\ txn_map[t] \in 1..MaxHistory
    /\ \A t \in DOMAIN txn_map : ~IsRef(processed_txns[txn_map[t]])
    /\ Cardinality(DOMAIN txn_map) = Cardinality(PurePositions)

C18_TxnIndex ==
    /\ []C18_IndexExact
    /\ [][\A t \in DOMAIN txn_map :
             t \in DOMAIN txn_map' /\ txn_map'[t] = txn_map[t]]_vars

\* Two indexed Deposit/Withdrawal entries with reference entries around them
C18_Witness ==
    /\ Cardinality(DOMAIN txn_map) = 2
    /\ Len(processed_txns) = 4
    /\ IsRef(processed_txns[2])
    /\ txn_map[processed_txns[3].p.txn_id] = 3

\* C19: no operation panics: every position held by the account index lies
\* within the account collection, every position held by the transaction
\* index lies within the history and holds a Deposit/Withdrawal entry, and
\* neither the last call nor any call possible next takes the panic branch.
C19_NoPanic ==
    /\ \A a \in DOMAIN acnt_map : acnt_map[a] \in DOMAIN accounts
    /\ \A t \in DOMAIN txn_map :
          /\ txn_map[t] \in DOMAIN processed_txns
          /\ IsPure(processed_txns[txn_map[t]])
    /\ res # "Panic"
    /\ \A t \in Transaction : process_txn(Self, t).res # "Panic"

\* A chargeback went through the match on the indexed entry, with a second
\* account and reference entries in the history
C19_Witness ==
    /\ txn.type = "Chargeback"
    /\ res = "Ok"
    /\ Len(processed_txns) = 4
    /\ Len(accounts) = 2

\* C20: acnt_map maps id to position i exactly when accounts[i].id = id, no
\* two accounts share an id, the index and the collection have the same
\* size, and an account's id and position (and its index entry) never change
\* once created.
C20_AcntIndexExact ==
    /\ \A a \in DOMAIN acnt_map : a \in AcntIds /\ acnt_map[a] \in DOMAIN accounts
    /\ \A a \in AcntIds : \A i \in DOMAIN accounts :
          (a \in DOMAIN acnt_map /\ acnt_map[a] = i) <=> accounts[i].id = a
    /\ \A i, j \in DOMAIN accounts : accounts[i].id = accounts[j].id => i = j
    /\ Cardinality(DOMAIN acnt_map) = Len(accounts)

C20_AcntIndex ==
    /\ []C20_AcntIndexExact
    /\ [][/\ \A i \in DOMAIN accounts :
                i \in DOMAIN accounts' /\ accounts'[i].id = accounts[i].id
          /\ \A a \in DOMAIN acnt_map :
                a \in DOMAIN acnt_map' /\ acnt_map'[a] = acnt_map[a]]_vars

\* Two accounts created in the reverse order of their ids, then a further
\* deposit to the first one
C20_Witness ==
    /\ Len(accounts) = 2
    /\ accounts[1].id = 2
    /\ acnt_map[2] = 1
    /\ acnt_map[1] = 2
    /\ txn.type = "Deposit"
    /\ res = "Ok"
    /\ Len(processed_txns) >= 3

\* Positions of the accepted deposits for account a in the history
DepositsFor(a) ==
    {i \in DOMAIN processed_txns :
        processed_txns[i].type = "Deposit" /\ processed_txns[i].p.acnt_id = a}

\* Position of the first accepted deposit for account a
FirstDeposit(a) == CHOOSE i \in DepositsFor(a) : \A j \in DepositsFor(a) : i <= j

\* C21: the account collection (which the output stage writes row by row) is
\* in first-touch order: account a precedes account b if and only if the first
\* accepted deposit for a precedes the first accepted deposit for b, and each
\* account that has an accepted deposit has exactly one entry.
C21_FirstTouchOrder ==
    /\ \A i \in DOMAIN accounts : DepositsFor(accounts[i].id) # {}
    /\ \A i, j \in DOMAIN accounts :
          i < j <=> FirstDeposit(accounts[i].id) < FirstDeposit(accounts[j].id)
    /\ \A a \in AcntIds :
          Cardinality({i \in DOMAIN accounts : accounts[i].id = a})
             = (IF DepositsFor(a) = {} THEN 0 ELSE 1)

\* Account 2 was touched first; the deposit just accepted opened account 1,
\* which is placed after it
C21_Witness ==
    /\ Len(processed_txns) = 2
    /\ processed_txns[1].type = "Deposit" /\ processed_txns[1].p.acnt_id = 2
    /\ txn.type = "Deposit" /\ txn.p.acnt_id = 1 /\ res = "Ok"
    /\ accounts[1].id = 2
    /\ accounts[2].id = 1

\* Values of available substituted to see whether an operation looks at it
ProbeAvailable == {-100, 100}

\* The ledger with the available of the account at position i replaced by v
WithAvailable(i, v) == [Self EXCEPT !.accounts[i].available = v]

\* C26: a Dispute naming an existing unfrozen account and an accepted,
\* undisputed transaction is accepted whatever available is (which can leave
\* available negative), and the outcome of a Deposit, Dispute, Resolve or
\* Chargeback never depends on any account's available.
C26_DisputeIgnoresAvailable ==
    /\ [][(/\ txn'.type = "Dispute"
           /\ txn'.r.acnt_id \in KnownAcnts
           /\ ~AcntOf(txn'.r.acnt_id).frozen
           /\ txn'.r.ref_id \in AcceptedIds
           /\ \E i \in PurePositions :
                 /\ processed_txns[i].p.txn_id = txn'.r.ref_id
                 /\ ~processed_txns[i].p.disputed)
          => res' = "Ok"]_vars
    /\ [](\A t \in Transaction : t.type # "Withdrawal" =>
             \A i \in DOMAIN accounts : \A v \in ProbeAvailable :
                process_txn(WithAvailable(i, v), t).res = process_txn(Self, t).res)

\* Deposit 10, withdraw 10, dispute the deposit: available -10, held 10
C26_Witness ==
    /\ Len(processed_txns) = 3
    /\ processed_txns[1].type = "Deposit" /\ processed_txns[1].p.amount = 10
    /\ processed_txns[2].type = "Withdrawal" /\ processed_txns[2].p.amount = 10
    /\ txn.type = "Dispute" /\ res = "Ok"
    /\ txn.r.ref_id = processed_txns[1].p.txn_id
    /\ processed_txns[1].p.acnt_id = txn.r.acnt_id
    /\ processed_txns[2].p.acnt_id = txn.r.acnt_id
    /\ AcntOf(txn.r.acnt_id).available = -10
    /\ AcntOf(txn.r.acnt_id).held = 10
    /\ get_total(AcntOf(txn.r.acnt_id)) = 0

\* C30: Deposit reports the first failing precondition in the order
\* TxnIdAlreadyExists, AccountFrozen; a deposit to an account that does not
\* exist yet fails only with TxnIdAlreadyExists, and a deposit with an
\* already accepted id to a frozen account reports TxnIdAlreadyExists.
C30_DepositCheckOrder ==
    [][txn'.type = "Deposit" =>
         LET p == txn'.p IN
         /\ res' = (IF p.txn_id \in AcceptedIds THEN "TxnIdAlreadyExists"
                    ELSE IF p.acnt_id \in KnownAcnts /\ AcntOf(p.acnt_id).frozen
                         THEN "AccountFrozen"
                    ELSE "Ok")
         /\ p.acnt_id \notin KnownAcnts => res' \in {"Ok", "TxnIdAlreadyExists"}
         /\ (/\ p.txn_id \in AcceptedIds
             /\ p.acnt_id \in KnownAcnts
             /\ AcntOf(p.acnt_id).frozen) => res' = "TxnIdAlreadyExists"]_vars

\* A deposit with an already accepted id to a frozen account
C30_Witness ==
    /\ txn.type = "Deposit"
    /\ res = "TxnIdAlreadyExists"
    /\ txn.p.txn_id \in AcceptedIds
    /\ txn.p.acnt_id \in KnownAcnts
    /\ AcntOf(txn.p.acnt_id).frozen

\* The Deposit/Withdrawal entry that a reference transaction r names
RefEntry(r) == processed_txns[txn_map[r.ref_id]]

\* C28: whenever a Dispute, Resolve or Chargeback is accepted, the account it
\* names, which is the only account it changes, is the account on which the
\* referenced Deposit/Withdrawal was recorded.
C28_RefAccountAligned ==
    [][(IsRef(txn') /\ res' = "Ok") =>
          /\ RefEntry(txn'.r).p.acnt_id = txn'.r.acnt_id
          /\ \A i \in DOMAIN accounts :
                accounts'[i] # accounts[i]
                   => accounts[i].id = RefEntry(txn'.r).p.acnt_id]_vars

\* Sum of the amounts of the entries of h recorded for account a whose
\* disputed flag is set
RECURSIVE DisputedSum(_, _)
DisputedSum(h, a) ==
    IF h = <<>> THEN 0
    ELSE LET e == h[Len(h)]
             rest == DisputedSum(SubSeq(h, 1, Len(h) - 1), a) IN
         IF IsPure(e) /\ e.p.acnt_id = a /\ e.p.disputed THEN rest + e.p.amount
         ELSE rest

\* C27: in every reachable state each account's held equals the sum of the
\* amounts of the Deposit/Withdrawal entries recorded for that account whose
\* disputed flag is currently set.
C27_HeldIsDisputedSum ==
    \A i \in DOMAIN accounts :
       accounts[i].held = DisputedSum(processed_txns, accounts[i].id)

\* The transactions of the rows that read and convert, in row order
RECURSIVE GoodTxns(_)
GoodTxns(rows) ==
    IF rows = <<>> THEN <<>>
    ELSE LET rest == GoodTxns(Tail(rows)) IN
         IF Head(rows) = BadRow \/ to_transaction(Head(rows)).res # "Ok"
         THEN rest
         ELSE <<to_transaction(Head(rows)).txn>> \o rest

\* The ledger after dispatching the transactions txns in order from self
RECURSIVE ApplyAll(_, _)
ApplyAll(self, txns) ==
    IF txns = <<>> THEN self
    ELSE ApplyAll(process_txn(self, Head(txns)).pe, Tail(txns))

\* The rows of the source the loop has gone past
RowsDone == SubSeq(source.rows, 1, cursor - 1)

\* C22: the streaming loop never stops at a bad record.  A row that fails to
\* read, fails conversion or is rejected by a business rule leaves the ledger
\* unchanged and the loop goes on to the next row; the ledger is at every
\* point the result of dispatching, in order, the rows gone past that read
\* and convert, and the run of an opened source ends only past the last row.
C22_StreamSkipsBadRecords ==
    /\ [][(/\ pc = "loop"
           /\ cursor \in DOMAIN source.rows
           /\ res' \in TxnErrors \cup InputTxnErr \cup {"ReadError"})
             => /\ LedgerUnchanged
                /\ pc' = "loop"
                /\ cursor' = cursor + 1]_vars
    /\ [](pc = "loop" => Self = ApplyAll(new, GoodTxns(RowsDone)))
    /\ []((pc = "done" /\ source.opens)
             => /\ cursor = Len(source.rows) + 1
                /\ Self = ApplyAll(new, GoodTxns(source.rows)))

\* A finished run over a source whose middle row is malformed and whose
\* first and last rows, a deposit and a withdrawal, were both applied
C22_Witness ==
    /\ pc = "done"
    /\ Len(source.rows) = 3
    /\ source.rows[2] = BadRow
    /\ source.rows[1] # BadRow /\ source.rows[1].txn_type = "deposit"
    /\ source.rows[3] # BadRow /\ source.rows[3].txn_type = "withdrawal"
    /\ Len(processed_txns) = 2
    /\ accounts[1].available = 0

\* The source opens and every row reads and converts
Parses(src) ==
    /\ src.opens
    /\ \A i \in DOMAIN src.rows :
          src.rows[i] # BadRow /\ to_transaction(src.rows[i]).res = "Ok"

\* C23: in a batch run, if the source cannot be opened or any row fails to
\* read or to convert, parsing fails before anything is dispatched: the run
\* ends at once, the ledger stays empty and nothing is written.  A source
\* whose rows all read and convert is dispatched row by row to the end and
\* written, a transaction rejected by a business rule being skipped.
C23_BatchAbortsOnBadSource ==
    /\ [](~Parses(source)
             => /\ pc \in {"parse", "aborted"}
                /\ Self = new
                /\ txn = NoTxn
                /\ output = <<>>)
    /\ [][~Parses(source) => (pc = "parse" /\ pc' = "aborted")]_vars
    /\ [][(pc = "loop" /\ cursor \in DOMAIN txn_vec /\ res' \in TxnErrors)
             => /\ LedgerUnchanged
                /\ pc' = "loop"
                /\ cursor' = cursor + 1]_vars
    /\ []((Parses(source) /\ pc = "done")
             => /\ cursor = Len(source.rows) + 1
                /\ Self = ApplyAll(new, GoodTxns(source.rows))
                /\ output = <<output_accounts(accounts)>>)
    /\ [](Parses(source) => pc # "aborted")

\* An aborted run whose first two rows are an acceptable deposit and
\* withdrawal and whose last row does not convert
C23_Witness ==
    /\ pc = "aborted"
    /\ res = "InvalidData"
    /\ Len(source.rows) = 3
    /\ source.rows[1] # BadRow /\ source.rows[1].txn_type = "deposit"
    /\ source.rows[1].amount # None /\ source.rows[1].txn_id = 1
    /\ source.rows[2] # BadRow /\ source.rows[2].txn_type = "withdrawal"
    /\ source.rows[2].amount # None /\ source.rows[2].txn_id = 2
    /\ source.rows[3] # BadRow /\ source.rows[3].txn_type = "transfer"
    /\ accounts = <<>>
    /\ output = <<>>

\* A finished run in which a business rule rejected the middle transaction
C23_WitnessRejected ==
    /\ pc = "done"
    /\ Len(txn_vec) = 3
    /\ Len(processed_txns) = 2
    /\ txn_vec[2].type = "Deposit"
    /\ processed_txns[2] = txn_vec[3]

\* The raw record given to the adapter
InRecord == source.rows[1]

\* The multiple of the retained unit at or next below the raw amount v
Floored(v) == CHOOSE t \in (v - Step + 1)..v : t % Step = 0

\* C24: the adapter's result is decided by the record's type and the presence
\* of an amount.  deposit/withdrawal: MissingAmount without an amount, else a
\* Deposit/Withdrawal with the record's tx and client, the truncated amount
\* and disputed = false.  dispute/resolve/chargeback: ShouldHaveNoAmount with
\* an amount, else the matching reference transaction with ref_id = tx and
\* acnt_id = client.  Any other type: UnsupportedType, with or without an
\* amount.  Every record gives exactly one of these results and the ledger
\* is not touched.
C24_AdapterTable ==
    [][pc = "convert" =>
         /\ pc' = "converted"
         /\ LedgerUnchanged
         /\ LET in == InRecord
                kind == [deposit |-> "Deposit", withdrawal |-> "Withdrawal",
                         dispute |-> "Dispute", resolve |-> "Resolve",
                         chargeback |-> "Chargeback"] IN
            IF in.txn_type \in {"deposit", "withdrawal"}
            THEN IF in.amount = None
                 THEN res' = "MissingAmount" /\ txn' = NoTxn
                 ELSE /\ res' = "Ok"
                      /\ txn'.type = kind[in.txn_type]
                      /\ txn'.p.txn_id = in.txn_id
                      /\ txn'.p.acnt_id = in.acnt_id
                      /\ txn'.p.amount = Floored(in.amount[1])
                      /\ txn'.p.disputed = FALSE
            ELSE IF in.txn_type \in {"dispute", "resolve", "chargeback"}
            THEN IF in.amount # None
                 THEN res' = "ShouldHaveNoAmount" /\ txn' = NoTxn
                 ELSE /\ res' = "Ok"
                      /\ txn'.type = kind[in.txn_type]
                      /\ txn'.r.ref_id = in.txn_id
                      /\ txn'.r.acnt_id = in.acnt_id
            ELSE res' = "UnsupportedType" /\ txn' = NoTxn]_vars

\* A record of an unsupported type that carries an amount
C24_Witness ==
    /\ pc = "converted"
    /\ InRecord.txn_type = "transfer"
    /\ InRecord.amount # None
    /\ res = "UnsupportedType"

\* A chargeback record without an amount for client 2
C24_WitnessRef ==
    /\ pc = "converted"
    /\ InRecord.txn_type = "chargeback"
    /\ InRecord.acnt_id = 2
    /\ res = "Ok"
    /\ txn = Chargeback([acnt_id |-> 2, ref_id |-> InRecord.txn_id])

C25_WitnessTest ==
    /\ pc = "converted"
    /\ res = "Ok"
    /\ InRecord.amount = Some(12345 * 10^(RawDigits - 5))
    /\ txn.p.amount = 12340 * 10^(RawDigits - 5)

\* C29: a streaming run over a finite source terminates.  The loop starts at
\* the first row and every iteration handles the row under the cursor and
\* moves one row on, so each row is examined exactly once, in order; past
\* the last row the accounts are handed to the output stage and the run
\* stops.  A source that cannot be opened is the only other outcome: no row
\* is handled and the ledger is as it was.
C29_StreamTerminates ==
    /\ <>(pc = "done")
    /\ [][pc # "done"]_vars
    /\ [][pc' = "loop" => cursor' = (IF pc = "open" THEN 1 ELSE cursor + 1)]_vars
    /\ [][(pc = "loop" /\ pc' = "loop") =>
             LET out == stream_record(Self, source.rows[cursor]) IN
             /\ accounts' = out.pe.accounts
             /\ processed_txns' = out.pe.processed_txns
             /\ txn' = out.txn
             /\ res' = out.res]_vars
    /\ [](pc # "done" => output = <<>>)
    /\ [](pc = "done" =>
             /\ output = <<output_accounts(accounts)>>
             /\ IF source.opens
                THEN cursor = Len(source.rows) + 1
                ELSE cursor = 0 /\ Self = new /\ txn = NoTxn)

\* A finished run over three rows that wrote one account
C29_Witness ==
    /\ pc = "done"
    /\ Len(source.rows) = 3
    /\ cursor = 4
    /\ output = << <<(<<1, 10 * Step, 0, 10 * Step, FALSE>>)>> >>

\* A finished run whose source could not be opened
C29_WitnessUnopened ==
    /\ pc = "done"
    /\ ~source.opens
    /\ res = "OpenError"
    /\ output = << <<>> >>

\* Amount of the Deposit/Withdrawal entry of h with transaction id t
AmountOf(h, t) ==
    LET j == CHOOSE j \in DOMAIN h : IsPure(h[j]) /\ h[j].p.txn_id = t IN
    h[j].p.amount

\* Deposits minus withdrawals minus charged-back amounts of account a over
\* the first n entries of the history h
RECURSIVE TotalFlow(_, _, _)
TotalFlow(h, n, a) ==
    IF n = 0 THEN 0
    ELSE LET e == h[n]
             rest == TotalFlow(h, n - 1, a) IN
         IF e.type = "Deposit" /\ e.p.acnt_id = a THEN rest + e.p.amount
         ELSE IF e.type = "Withdrawal" /\ e.p.acnt_id = a THEN rest - e.p.amount
         ELSE IF e.type = "Chargeback" /\ e.r.acnt_id = a
              THEN rest - AmountOf(h, e.r.ref_id)
         ELSE rest

\* C31: in every reachable state each account's total (available + held) is
\* the sum of its accepted deposits, minus the sum of its accepted
\* withdrawals, minus the amounts of the transactions referenced by the
\* chargebacks accepted against it; an accepted Dispute or Resolve leaves
\* the total of every account unchanged.
C31_TotalFunds ==
    /\ [](\A i \in DOMAIN accounts :
             get_total(accounts[i])
                = TotalFlow(processed_txns, Len(processed_txns), accounts[i].id))
    /\ [][(txn'.type \in {"Dispute", "Resolve"} /\ res' = "Ok") =>
             /\ Len(accounts') = Len(accounts)
             /\ \A i \in DOMAIN accounts :
                   get_total(accounts'[i]) = get_total(accounts[i])]_vars

\* A chargeback accepted on an account that also has an accepted withdrawal
C31_Witness ==
    /\ txn.type = "Chargeback"
    /\ res = "Ok"
    /\ \E j \in DOMAIN processed_txns :
          /\ processed_txns[j].type = "Withdrawal"
          /\ processed_txns[j].p.acnt_id = txn.r.acnt_id
    /\ get_total(AcntOf(txn.r.acnt_id)) # 0

\* The most recent accepted reference transaction naming t is a Dispute
LastRefIsDispute(t) ==
    /\ RefsTo(t) # <<>>
    /\ RefsTo(t)[Len(RefsTo(t))].type = "Dispute"

\* C32: with every Deposit/Withdrawal entering with disputed = false, in
\* every reachable state the disputed flag of a Deposit/Withdrawal entry is
\* set if and only if the most recent accepted reference transaction naming
\* its txn_id is a Dispute; an entry that no accepted Dispute names is not
\* flagged.
C32_FlagIsLastRef ==
    \A j \in PurePositions :
       LET e == processed_txns[j] IN
       /\ e.p.disputed <=> LastRefIsDispute(e.p.txn_id)
       /\ (\A k \in DOMAIN processed_txns :
              ~(processed_txns[k].type = "Dispute"
                /\ processed_txns[k].r.ref_id = e.p.txn_id))
          => ~e.p.disputed

\* An entry disputed, resolved and disputed again is flagged
C32_Witness ==
    /\ Len(processed_txns) = 4
    /\ processed_txns[1].type = "Deposit"
    /\ processed_txns[2].type = "Dispute"
    /\ processed_txns[3].type = "Resolve"
    /\ processed_txns[4].type = "Dispute"
    /\ processed_txns[1].p.disputed

\* An entry charged back is not flagged
C32_WitnessChargeback ==
    /\ txn.type = "Chargeback"
    /\ res = "Ok"
    /\ ~RefEntry(txn.r).p.disputed

\* C33: a transaction naming account a, accepted or rejected, leaves the
\* available, held and frozen of every other account unchanged.
C33_OtherAccountsUnchanged ==
    [][\A i \in DOMAIN accounts :
          accounts[i].id # NamedAcnt(txn') =>
             /\ i \in DOMAIN accounts'
             /\ accounts'[i].id = accounts[i].id
             /\ accounts'[i].available = accounts[i].available
             /\ accounts'[i].held = accounts[i].held
             /\ accounts'[i].frozen = accounts[i].frozen]_vars

\* A chargeback accepted on one account while another, unfrozen account
\* with funds exists
C33_Witness ==
    /\ txn.type = "Chargeback"
    /\ res = "Ok"
    /\ \E i \in DOMAIN accounts :
          /\ accounts[i].id # txn.r.acnt_id
          /\ ~accounts[i].frozen
          /\ accounts[i].available # 0

\* Transaction ids that an accepted Chargeback has referenced
ChargedBack ==
    {processed_txns[k].r.ref_id :
        k \in {i \in DOMAIN processed_txns : processed_txns[i].type = "Chargeback"}}

\* C34: once a Chargeback referencing transaction T has been accepted, no
\* later Dispute, Resolve or Chargeback referencing T is accepted, whichever
\* account it names.
C34_ChargebackFinal ==
    [][(IsRef(txn') /\ txn'.r.ref_id \in ChargedBack) => res' # "Ok"]_vars

\* Every accepted Deposit/Withdrawal has a non-negative amount
NonNegativeAmounts ==
    \A j \in PurePositions : processed_txns[j].p.amount >= 0

\* C35: with non-negative transaction amounts, no account's held is
\* negative in any reachable state.
C35_HeldNonNegative ==
    NonNegativeAmounts => \A i \in DOMAIN accounts : accounts[i].held >= 0

\* The last call was a Deposit/Withdrawal rejected by an account check
RejectedByAccount ==
    /\ IsPure(txn)
    /\ res \in {"AccountFrozen", "AccountDoesNotExist", "AccountLacksFunds"}

\* A Deposit/Withdrawal with id t made now is accepted whenever its
\* preconditions other than the id hold
FreshIdAccepted(t) ==
    \A p \in PureTxn : p.txn_id = t =>
       /\ (p.acnt_id \in KnownAcnts => ~AcntOf(p.acnt_id).frozen)
             => process_txn(Self, Deposit(p)).res = "Ok"
       /\ (/\ p.acnt_id \in KnownAcnts
           /\ AcntOf(p.acnt_id).available >= p.amount
           /\ ~AcntOf(p.acnt_id).frozen)
             => process_txn(Self, Withdrawal(p)).res = "Ok"

\* C36 as stated: after a Deposit/Withdrawal with txn_id t is rejected with
\* AccountFrozen, AccountDoesNotExist or AccountLacksFunds, t is not indexed,
\* every Dispute naming t fails with TxnIdDoesNotExist, and a
\* Deposit/Withdrawal with txn_id t whose other preconditions hold is
\* accepted.
C36_DisputeAlwaysTxnIdDoesNotExist ==
    RejectedByAccount =>
       LET t == txn.p.txn_id IN
       /\ t \notin DOMAIN txn_map
       /\ \A r \in RefTxn : r.ref_id = t =>
             process_txn(Self, Dispute(r)).res = "TxnIdDoesNotExist"
       /\ FreshIdAccepted(t)

\* C36, amended: a rejected Deposit/Withdrawal leaves its txn_id t unindexed,
\* and as long as no Deposit/Withdrawal with id t has been accepted, t stays
\* unindexed, every Dispute naming t is rejected (with TxnIdDoesNotExist
\* when the account it names exists and is not frozen, with
\* AccountDoesNotExist or AccountFrozen otherwise), and a Deposit/Withdrawal
\* with id t whose other preconditions hold is accepted.
C36_RejectedIdNotConsumed ==
    /\ RejectedByAccount => txn.p.txn_id \notin AcceptedIds
    /\ \A t \in TxnIds \ AcceptedIds :
          /\ t \notin DOMAIN txn_map
          /\ \A r \in RefTxn : r.ref_id = t =>
                process_txn(Self, Dispute(r)).res =
                   (IF r.acnt_id \notin KnownAcnts THEN "AccountDoesNotExist"
                    ELSE IF AcntOf(r.acnt_id).frozen THEN "AccountFrozen"
                    ELSE "TxnIdDoesNotExist")
          /\ FreshIdAccepted(t)

\* A withdrawal with a new id rejected for lack of funds on an unfrozen
\* account
C36_Witness ==
    /\ txn.type = "Withdrawal"
    /\ res = "AccountLacksFunds"
    /\ ~AcntOf(txn.p.acnt_id).frozen
    /\ txn.p.txn_id \notin AcceptedIds

\* The ledger with the entry at history position j recorded as a Deposit
AsDeposit(j) == [Self EXCEPT !.processed_txns[j].type = "Deposit"]

\* C37: a Dispute of an accepted withdrawal of amount m is handled exactly
\* like one of a deposit: when it is accepted, available goes down by m and
\* held up by m; a following Resolve is accepted and restores both; a
\* following Chargeback is accepted, takes m from held and freezes the
\* account, whose total is then m lower than before the dispute.
C37_DisputedWithdrawal ==
    \A r \in RefTxn :
       (r.ref_id \in AcceptedIds /\ RefEntry(r).type = "Withdrawal") =>
          LET d == process_dispute(Self, r)
              m == RefEntry(r).p.amount IN
          d.res = "Ok" =>
             LET i == acnt_map[r.acnt_id]
                 u == process_resolve(d.pe, r)
                 c == process_chargeback(d.pe, r) IN
             /\ d.pe.accounts[i].available = accounts[i].available - m
             /\ d.pe.accounts[i].held = accounts[i].held + m
             /\ d.pe.accounts =
                   process_dispute(AsDeposit(txn_map[r.ref_id]), r).pe.accounts
             /\ u.res = "Ok"
             /\ u.pe.accounts = accounts
             /\ c.res = "Ok"
             /\ c.pe.accounts[i].held = accounts[i].held
             /\ c.pe.accounts[i].available = accounts[i].available - m
             /\ get_total(c.pe.accounts[i]) = get_total(accounts[i]) - m
             /\ c.pe.accounts[i].frozen

\* A withdrawal of 10 disputed and charged back on its own account: the
\* account is frozen with total -10 after a deposit of 10
C37_Witness ==
    /\ Len(processed_txns) = 4
    /\ processed_txns[1].type = "Deposit" /\ processed_txns[1].p.amount = 10
    /\ processed_txns[2].type = "Withdrawal" /\ processed_txns[2].p.amount = 10
    /\ processed_txns[3].type = "Dispute"
    /\ txn.type = "Chargeback" /\ res = "Ok"
    /\ txn.r.ref_id = processed_txns[2].p.txn_id
    /\ processed_txns[3].r = txn.r
    /\ processed_txns[1].p.acnt_id = txn.r.acnt_id
    /\ processed_txns[2].p.acnt_id = txn.r.acnt_id
    /\ AcntOf(txn.r.acnt_id).available = -10
    /\ AcntOf(txn.r.acnt_id).held = 0
    /\ AcntOf(txn.r.acnt_id).frozen

\* C38: on a source that opens and in which every row reads and converts,
\* the batch policy and the streaming policy are equivalent: before and after
\* each record the two ledgers (accounts, indices, history) are identical,
\* both runs reach the output stage, and the account rows they hand to it
\* are the same.
C38_BatchEqualsStream ==
    Parses(source) =>
        /\ pc # "open" => batch.res = "Ok" /\ Len(txn_vec) = Len(source.rows)
        /\ batch.pe = Self
        /\ pc = "done" => output # <<>> /\ batch.output = output

\* Both runs are done with three rows, all accepted: a deposit that is now
\* disputed, its dispute and a deposit by another client; each run has
\* written the same two accounts
C38_Witness ==
    /\ pc = "done"
    /\ Parses(source)
    /\ Len(source.rows) = 3
    /\ batch.output = output
    /\ Len(output[1]) = 2
    /\ Len(batch.pe.processed_txns) = 3
    /\ batch.pe.processed_txns[1].p.disputed
    /\ batch.pe.accounts[1].held > 0

\* The batch run stopped at parsing and wrote nothing, the streaming run of
\* the same source dispatched a deposit and wrote its account
C38_WitnessDiffer ==
    /\ pc = "done"
    /\ ~Parses(source)
    /\ batch.output = <<>>
    /\ Len(output[1]) = 1
====
